---- MODULE Spec2Model ----
\* Build-argument resolution (Args) of the GN meta-build generator:
\* overrides, per-toolchain declarations, root-scope seeding, the
\* unused-override audit and the read views, modelled from args.cc.
EXTENDS Integers, Sequences, FiniteSets, TLC

VARIABLES overrides, all_overrides, declared_arguments_per_toolchain,
          toolchain_overrides, scopes, os_arch, last, nops,
          lock_, threads, serial

vars == <<overrides, all_overrides, declared_arguments_per_toolchain,
          toolchain_overrides, scopes, os_arch, last, nops,
          lock_, threads, serial>>

\* The mutex, the calls in progress on each thread, and the outcome of the
\* calls made so far had each run alone, in the order they took the mutex.
mt_vars == <<lock_, threads, serial>>

args_vars == <<overrides, all_overrides, declared_arguments_per_toolchain,
               toolchain_overrides>>

\* ---------------------------------------------------------------- bounds

\* Number of calls made on the Args instance in one run.
MaxOps == 3

\* ---------------------------------------------------------------- values

\* The null origin (no AST node).
nullptr == 0

\* Value(origin, payload): a typed payload plus the node that produced it.
Value(origin, val) == [origin |-> origin, val |-> val]

\* Value(): the null value.
NullValue == Value(nullptr, "<null>")

\* A map with no entry.
EmptyMap == [n \in {} |-> NullValue]

\* map[key] = value of a key -> Value map.
MapSet(map, key, value) ==
    [n \in (DOMAIN map) \cup {key} |-> IF n = key THEN value ELSE map[n]]

\* Every entry of src written over dst (for (e : src) dst[e.first] = e.second).
MapSetAll(dst, src) ==
    [n \in (DOMAIN dst) \cup (DOMAIN src) |->
        IF n \in DOMAIN src THEN src[n] ELSE dst[n]]

\* All enumerations of a finite set (the iteration orders a container of
\* unspecified ordering can produce).
RECURSIVE Orders(_)
Orders(S) ==
    IF S = {} THEN {<<>>}
    ELSE UNION {{<<x>> \o rest : rest \in Orders(S \ {x})} : x \in S}

\* ---------------------------------------------------------------- errors

Err(origin, title, sub) == [origin |-> origin, title |-> title, sub |-> sub]

\* Err(): no error has been written.
NoErr == Err(nullptr, "", <<>>)

kDuplicateTitle == "Duplicate build argument declaration."
kPreviousTitle == "Previous declaration."
kNoEffectTitle == "Build argument has no effect."

\* ---------------------------------------------------------------- names

kHostOs == "host_os"
kTargetOs == "target_os"
kCurrentOs == "current_os"
kHostCpu == "host_cpu"
kTargetCpu == "target_cpu"
kCurrentCpu == "current_cpu"

SysVars == {kHostOs, kTargetOs, kCurrentOs, kHostCpu, kTargetCpu, kCurrentCpu}

\* Names the front-end passes in: two ordinary arguments and a system one.
ArgNames == {"a", "b", kCurrentOs}

\* ---------------------------------------------------------------- settings

\* Settings instances, by address: two default ones (the default toolchain
\* and the one used for args.gn), and two labelled toolchains.
SettingsIds == 1..4

Settings(id) ==
    CASE id = 1 -> [is_default |-> TRUE, toolchain_label |-> <<>>]
      [] id = 2 -> [is_default |-> TRUE, toolchain_label |-> <<>>]
      [] id = 3 -> [is_default |-> FALSE, toolchain_label |-> <<"t", "a">>]
      [] id = 4 -> [is_default |-> FALSE, toolchain_label |-> <<"t", "b">>]

\* Character order of the labels' alphabet.
CharRank(c) == CASE c = "a" -> 1 [] c = "b" -> 2 [] c = "t" -> 3

\* Lexicographic a < b on labels.
RECURSIVE LabelLess(_, _)
LabelLess(a, b) ==
    IF b = <<>> THEN FALSE
    ELSE IF a = <<>> THEN TRUE
    ELSE IF Head(a) # Head(b) THEN CharRank(Head(a)) < CharRank(Head(b))
    ELSE LabelLess(Tail(a), Tail(b))

\* ---------------------------------------------------------------- scopes

\* Scopes created by the front-end, each bound to one Settings for life;
\* scopes 3 and 4 belong to the same toolchain.
ScopeIds == 1..5

ScopeSettings(sc) ==
    CASE sc = 1 -> 1 [] sc = 2 -> 2 [] sc = 3 -> 3 [] sc = 4 -> 3 [] sc = 5 -> 4

NewScope == [values |-> EmptyMap, used |-> {}]

\* Scope::SetValue: insert or replace; the value carries the origin.
SetValue(scope, name, value) ==
    [scope EXCEPT !.values = MapSet(scope.values, name, value)]

\* Scope::MarkUsed: no-op when the name is absent.
MarkUsed(scope, name) ==
    IF name \in DOMAIN scope.values
    THEN [scope EXCEPT !.used = scope.used \cup {name}]
    ELSE scope

\* Scope::GetValue: the value or null; does not mark used.
GetValue(scope, name) ==
    IF name \in DOMAIN scope.values THEN scope.values[name] ELSE NullValue

HasValue(scope, name) == name \in DOMAIN scope.values

\* ---------------------------------------------------------------- host

\* The OS the binary was built for (OS_LINUX).
HostOs == "linux"

\* std::string::substr(pos, n).
Substr(s, pos, n) ==
    SubSeq(s, pos + 1, IF pos + n < Len(s) THEN pos + n ELSE Len(s))

\* The derivation with the "arm" prefix test ahead of the comparison with
\* "aarch64" and "arm64".
HostCpu_PrefixFirst(arch) ==
    IF arch = <<"x", "8", "6">> \/ arch = <<"B", "e", "P", "C">> THEN "x86"
    ELSE IF arch = <<"x", "8", "6", "_", "6", "4">> THEN "x64"
    ELSE IF Substr(arch, 0, 3) = <<"a", "r", "m">> THEN "arm"
    ELSE IF arch = <<"a", "a", "r", "c", "h", "6", "4">>
            \/ arch = <<"a", "r", "m", "6", "4">> THEN "arm64"
    ELSE IF arch = <<"m", "i", "p", "s">> THEN "mipsel"
    ELSE IF arch = <<"m", "i", "p", "s", "6", "4">> THEN "mips64el"
    ELSE IF arch = <<"s", "3", "9", "0", "x">> THEN "s390x"
    ELSE IF arch = <<"p", "p", "c", "6", "4">>
            \/ arch = <<"p", "p", "c", "6", "4", "l", "e">> THEN "ppc64"
    ELSE IF arch = <<"r", "i", "s", "c", "v", "3", "2">> THEN "riscv32"
    ELSE IF arch = <<"r", "i", "s", "c", "v", "6", "4">> THEN "riscv64"
    ELSE IF arch = <<"e", "2", "k">> THEN "e2k"
    ELSE IF arch = <<"l", "o", "o", "n", "g", "a", "r", "c", "h", "6", "4">>
         THEN "loong64"
    ELSE "fatal"

\* Host architecture from OperatingSystemArchitecture(); "fatal" is the
\* CHECK(false) arm.
HostCpu(arch) ==
    IF arch = <<"x", "8", "6">> \/ arch = <<"B", "e", "P", "C">> THEN "x86"
    ELSE IF arch = <<"x", "8", "6", "_", "6", "4">> THEN "x64"
    ELSE IF arch = <<"a", "a", "r", "c", "h", "6", "4">>
            \/ arch = <<"a", "r", "m", "6", "4">> THEN "arm64"
    ELSE IF Substr(arch, 0, 3) = <<"a", "r", "m">> THEN "arm"
    ELSE IF arch = <<"m", "i", "p", "s">> THEN "mipsel"
    ELSE IF arch = <<"m", "i", "p", "s", "6", "4">> THEN "mips64el"
    ELSE IF arch = <<"s", "3", "9", "0", "x">> THEN "s390x"
    ELSE IF arch = <<"p", "p", "c", "6", "4">>
            \/ arch = <<"p", "p", "c", "6", "4", "l", "e">> THEN "ppc64"
    ELSE IF arch = <<"r", "i", "s", "c", "v", "3", "2">> THEN "riscv32"
    ELSE IF arch = <<"r", "i", "s", "c", "v", "6", "4">> THEN "riscv64"
    ELSE IF arch = <<"e", "2", "k">> THEN "e2k"
    ELSE IF arch = <<"l", "o", "o", "n", "g", "a", "r", "c", "h", "6", "4">>
         THEN "loong64"
    ELSE "fatal"

\* Architectures the host reports in this model's runs.
HostArchs == {<<"x", "8", "6", "_", "6", "4">>}

\* ---------------------------------------------------------------- inputs

\* Override values: one without an origin (as the unit tests and the
\* command line build them) and one assigned at an AST node.
OverrideValues == {Value(nullptr, "o1"), Value(3, "o2")}

\* Override maps handed over in bulk: one name, or an ordinary name
\* together with a system variable.
OverrideMaps ==
    {[n \in {"a"} |-> Value(nullptr, "o1")],
     [n \in {"b", kCurrentOs} |-> Value(3, "o2")]}

\* toolchain_args come with a non-default toolchain's definition; a default
\* toolchain is set up with none.
ToolchainArgs(settings) ==
    IF Settings(settings).is_default THEN {EmptyMap}
    ELSE OverrideMaps \cup {EmptyMap}

\* declare_args() blocks: "a" alone at node 1 with either default, "a" and
\* "b" together at node 2, and a block that names a system variable.
DeclMaps ==
    {[n \in {"a"} |-> Value(1, "d1")],
     [n \in {"a"} |-> Value(1, "d2")],
     [n \in {"a", "b"} |-> Value(2, "d1")],
     [n \in {kCurrentOs} |-> Value(1, "d1")]}

\* ---------------------------------------------------------------- Args

\* The toolchain's declared arguments looked up in a table that is not
\* keyed by toolchain: whatever some toolchain has declared.
DeclaredOf_AnyToolchain(declared, settings) ==
    IF DOMAIN declared = {} THEN EmptyMap
    ELSE declared[CHOOSE s \in DOMAIN declared :
                     \A u \in DOMAIN declared : s <= u]

\* declared_arguments_per_toolchain_[settings] read through operator[]:
\* an absent key reads as an empty map.
DeclaredOf(declared, settings) ==
    IF settings \in DOMAIN declared THEN declared[settings] ELSE EmptyMap

\* toolchain_overrides_[settings], likewise.
OverridesOf(tc_overrides, settings) ==
    IF settings \in DOMAIN tc_overrides THEN tc_overrides[settings] ELSE EmptyMap

\* map[settings] = kv on a Settings -> map table (operator[] creates the key).
TableSet(table, settings, kv) ==
    [s \in (DOMAIN table) \cup {settings} |->
        IF s = settings THEN kv ELSE table[s]]

\* The comparator with the label comparison turned around.
ToolchainLess_LabelDescending(a, b) ==
    IF Settings(a).is_default # Settings(b).is_default
    THEN Settings(a).is_default
    ELSE LabelLess(Settings(b).toolchain_label, Settings(a).toolchain_label)

\* The comparator of GetSortedToolchainsLocked: a sorts before b.
ToolchainLess(a, b) ==
    IF Settings(a).is_default # Settings(b).is_default
    THEN Settings(a).is_default
    ELSE LabelLess(Settings(a).toolchain_label, Settings(b).toolchain_label)

\* What std::sort with the comparator can leave for each set of keys: the
\* orders in which no toolchain comes after one it sorts before; keys the
\* comparator holds equivalent end up in whatever order the sort of an
\* address-ordered input leaves.
SortOutcomes ==
    [keys \in SUBSET SettingsIds |->
        {seq \in Orders(keys) :
            \A i, j \in 1..Len(seq) :
                i < j => ~ToolchainLess(seq[j], seq[i])}]

\* GetSortedToolchainsLocked: the keys of the table, sorted.
GetSortedToolchainsLocked(declared) == SortOutcomes[DOMAIN declared]

\* GetArgOverride: found in all_overrides_, or null.
GetArgOverride(all, name) ==
    IF name \in DOMAIN all
    THEN [found |-> TRUE, value |-> all[name]]
    ELSE [found |-> FALSE, value |-> NullValue]

\* The loop of GetArgFromAllArguments over the sorted toolchains.
RECURSIVE FirstDeclared(_, _, _, _)
FirstDeclared(declared, toolchains, i, name) ==
    IF i > Len(toolchains) THEN [found |-> FALSE, value |-> NullValue]
    ELSE IF name \in DOMAIN declared[toolchains[i]]
         THEN [found |-> TRUE, value |-> declared[toolchains[i]][name]]
         ELSE FirstDeclared(declared, toolchains, i + 1, name)

\* GetArgFromAllArguments for one outcome of the sort.
GetArgFromAllArguments(all, declared, toolchains, name) ==
    IF GetArgOverride(all, name).found
    THEN GetArgOverride(all, name)
    ELSE FirstDeclared(declared, toolchains, 1, name)

\* SetSystemVarsLocked assigning the toolchain's declared arguments as a
\* whole, which drops what was declared before.
SetSystemVarsLocked_Reset(dest, declared, settings, arch) ==
    LET empty_string == Value(nullptr, "")
        os_val == Value(nullptr, HostOs)
        arch_val == Value(nullptr, HostCpu(arch))
        seeded == [n \in SysVars |->
                     IF n = kHostOs THEN os_val
                     ELSE IF n = kHostCpu THEN arch_val
                     ELSE empty_string]
    IN  [scope |-> [values |-> MapSetAll(dest.values, seeded),
                    used |-> dest.used \cup SysVars],
         declared |-> TableSet(declared, settings, seeded)]

\* SetSystemVarsLocked without the six assignments to declared_arguments.
SetSystemVarsLocked_Undeclared(dest, declared, settings, arch) ==
    LET empty_string == Value(nullptr, "")
        os_val == Value(nullptr, HostOs)
        arch_val == Value(nullptr, HostCpu(arch))
        seeded == [n \in SysVars |->
                     IF n = kHostOs THEN os_val
                     ELSE IF n = kHostCpu THEN arch_val
                     ELSE empty_string]
    IN  [scope |-> [values |-> MapSetAll(dest.values, seeded),
                    used |-> dest.used \cup SysVars],
         declared |-> TableSet(declared, settings,
                               DeclaredOf(declared, settings))]

\* SetSystemVarsLocked without its MarkUsed calls.
SetSystemVarsLocked_Unmarked(dest, declared, settings, arch) ==
    LET empty_string == Value(nullptr, "")
        os_val == Value(nullptr, HostOs)
        arch_val == Value(nullptr, HostCpu(arch))
        seeded == [n \in SysVars |->
                     IF n = kHostOs THEN os_val
                     ELSE IF n = kHostCpu THEN arch_val
                     ELSE empty_string]
    IN  [scope |-> [values |-> MapSetAll(dest.values, seeded),
                    used |-> dest.used],
         declared |-> TableSet(declared, settings,
                               MapSetAll(DeclaredOf(declared, settings), seeded))]

\* SetSystemVarsLocked: seeds the six system variables into dest, records
\* them as declared for dest's toolchain and marks them used.
SetSystemVarsLocked(dest, declared, settings, arch) ==
    LET empty_string == Value(nullptr, "")
        os_val == Value(nullptr, HostOs)
        arch_val == Value(nullptr, HostCpu(arch))
        seeded == [n \in SysVars |->
                     IF n = kHostOs THEN os_val
                     ELSE IF n = kHostCpu THEN arch_val
                     ELSE empty_string]
    IN  [scope |-> [values |-> MapSetAll(dest.values, seeded),
                    used |-> dest.used \cup SysVars],
         declared |-> TableSet(declared, settings,
                               MapSetAll(DeclaredOf(declared, settings), seeded))]

\* ApplyOverridesLocked without the "has it been declared" test.
ApplyOverridesLocked_Undeclared(values, scope, declared_arguments) ==
    [scope EXCEPT !.values = MapSetAll(scope.values, values)]

\* ApplyOverridesLocked: writes into scope the entries of values whose name
\* is declared for the scope's toolchain.
ApplyOverridesLocked(values, scope, declared_arguments) ==
    [scope EXCEPT !.values =
        [n \in (DOMAIN scope.values)
                 \cup ((DOMAIN values) \cap (DOMAIN declared_arguments)) |->
            IF n \in DOMAIN values /\ n \in DOMAIN declared_arguments
            THEN values[n] ELSE scope.values[n]]]

\* SaveOverrideRecordLocked that records nothing.
SaveOverrideRecordLocked_Dropped(all, values) == all

\* SaveOverrideRecordLocked: every entry of values into all_overrides_.
SaveOverrideRecordLocked(all, values) == MapSetAll(all, values)

\* The duplicate check comparing whole values instead of locations.
IsDuplicate_ByValue(declared_arguments, name, value) ==
    /\ name \in DOMAIN declared_arguments
    /\ declared_arguments[name] # value

\* The duplicate check of DeclareArgs: the name is already declared for
\* this toolchain, at another location.
IsDuplicate(declared_arguments, name, value) ==
    /\ name \in DOMAIN declared_arguments
    /\ declared_arguments[name].origin # value.origin

\* EffectiveValue with the global override looked up first.
EffectiveValue_GlobalFirst(name, value, tc_overrides, ovr) ==
    IF name \in DOMAIN ovr THEN ovr[name]
    ELSE IF name \in DOMAIN tc_overrides THEN tc_overrides[name]
    ELSE value

\* EffectiveValue with the global override lookup left out.
EffectiveValue_NoGlobal(name, value, tc_overrides, ovr) ==
    IF name \in DOMAIN tc_overrides THEN tc_overrides[name]
    ELSE value

\* The value DeclareArgs writes for a name: the toolchain's override, else
\* the global override, else the declared default.
EffectiveValue(name, value, tc_overrides, ovr) ==
    IF name \in DOMAIN tc_overrides THEN tc_overrides[name]
    ELSE IF name \in DOMAIN ovr THEN ovr[name]
    ELSE value

\* The DeclareArgs loop assigning the declaration (operator[]) where the
\* code inserts it only when the name is new.
RECURSIVE DeclareArgsLoop_Reassigned(_, _, _, _, _, _, _)
DeclareArgsLoop_Reassigned(args, order, i, declared_arguments, tc_overrides, ovr, scope) ==
    IF i > Len(order)
    THEN [ret |-> TRUE, err |-> NoErr,
          declared |-> declared_arguments, scope |-> scope]
    ELSE
      LET name == order[i]
          value == args[name]
      IN
      IF IsDuplicate(declared_arguments, name, value)
      THEN [ret |-> FALSE,
            err |-> Err(value.origin, kDuplicateTitle,
                        <<Err(declared_arguments[name].origin,
                              kPreviousTitle, <<>>)>>),
            declared |-> declared_arguments, scope |-> scope]
      ELSE
        LET declared2 == MapSet(declared_arguments, name, value)
            effective == EffectiveValue(name, value, tc_overrides, ovr)
            scope2 == MarkUsed(SetValue(scope, name, effective), name)
        IN DeclareArgsLoop_Reassigned(args, order, i + 1, declared2,
                                      tc_overrides, ovr, scope2)

\* The DeclareArgs loop without the MarkUsed call of the branch that takes
\* the global override.
RECURSIVE DeclareArgsLoop_OverrideUnmarked(_, _, _, _, _, _, _)
DeclareArgsLoop_OverrideUnmarked(args, order, i, declared_arguments, tc_overrides, ovr, scope) ==
    IF i > Len(order)
    THEN [ret |-> TRUE, err |-> NoErr,
          declared |-> declared_arguments, scope |-> scope]
    ELSE
      LET name == order[i]
          value == args[name]
      IN
      IF IsDuplicate(declared_arguments, name, value)
      THEN [ret |-> FALSE,
            err |-> Err(value.origin, kDuplicateTitle,
                        <<Err(declared_arguments[name].origin,
                              kPreviousTitle, <<>>)>>),
            declared |-> declared_arguments, scope |-> scope]
      ELSE
        LET declared2 == IF name \in DOMAIN declared_arguments
                         THEN declared_arguments
                         ELSE MapSet(declared_arguments, name, value)
            effective == EffectiveValue(name, value, tc_overrides, ovr)
            scope2 == IF name \notin DOMAIN tc_overrides
                         /\ name \in DOMAIN ovr
                      THEN SetValue(scope, name, effective)
                      ELSE MarkUsed(SetValue(scope, name, effective), name)
        IN DeclareArgsLoop_OverrideUnmarked(args, order, i + 1, declared2,
                                            tc_overrides, ovr, scope2)

\* The DeclareArgs loop recording the new declaration over the previous
\* one before it reports the duplicate.
RECURSIVE DeclareArgsLoop_DuplicateRecorded(_, _, _, _, _, _, _)
DeclareArgsLoop_DuplicateRecorded(args, order, i, declared_arguments, tc_overrides, ovr, scope) ==
    IF i > Len(order)
    THEN [ret |-> TRUE, err |-> NoErr,
          declared |-> declared_arguments, scope |-> scope]
    ELSE
      LET name == order[i]
          value == args[name]
      IN
      IF IsDuplicate(declared_arguments, name, value)
      THEN [ret |-> FALSE,
            err |-> Err(value.origin, kDuplicateTitle,
                        <<Err(declared_arguments[name].origin,
                              kPreviousTitle, <<>>)>>),
            declared |-> MapSet(declared_arguments, name, value),
            scope |-> scope]
      ELSE
        LET declared2 == IF name \in DOMAIN declared_arguments
                         THEN declared_arguments
                         ELSE MapSet(declared_arguments, name, value)
            effective == EffectiveValue(name, value, tc_overrides, ovr)
            scope2 == MarkUsed(SetValue(scope, name, effective), name)
        IN DeclareArgsLoop_DuplicateRecorded(args, order, i + 1, declared2,
                                             tc_overrides, ovr, scope2)

\* One iteration of the DeclareArgs loop and the ones after it, over the
\* names of args in the order the map yields them.
RECURSIVE DeclareArgsLoop(_, _, _, _, _, _, _)
DeclareArgsLoop(args, order, i, declared_arguments, tc_overrides, ovr, scope) ==
    IF i > Len(order)
    THEN [ret |-> TRUE, err |-> NoErr,
          declared |-> declared_arguments, scope |-> scope]
    ELSE
      LET name == order[i]
          value == args[name]
      IN
      IF IsDuplicate(declared_arguments, name, value)
      THEN [ret |-> FALSE,
            err |-> Err(value.origin, kDuplicateTitle,
                        <<Err(declared_arguments[name].origin,
                              kPreviousTitle, <<>>)>>),
            declared |-> declared_arguments, scope |-> scope]
      ELSE
        LET declared2 == IF name \in DOMAIN declared_arguments
                         THEN declared_arguments
                         ELSE MapSet(declared_arguments, name, value)
            effective == EffectiveValue(name, value, tc_overrides, ovr)
            scope2 == MarkUsed(SetValue(scope, name, effective), name)
        IN DeclareArgsLoop(args, order, i + 1, declared2, tc_overrides,
                           ovr, scope2)

\* RemoveDeclaredOverrides that erases nothing.
RemoveDeclaredOverrides_KeepAll(declared_arguments, ovr) == ovr

\* RemoveDeclaredOverrides: the entries of ovr whose name is not declared.
RemoveDeclaredOverrides(declared_arguments, ovr) ==
    [n \in (DOMAIN ovr) \ (DOMAIN declared_arguments) |-> ovr[n]]

\* The loop of VerifyAllOverridesUsed over the toolchains still to visit.
RECURSIVE UnusedOverrides(_, _, _)
UnusedOverrides(declared, toolchains, unused) ==
    IF toolchains = {} THEN unused
    ELSE LET t == CHOOSE t \in toolchains : TRUE
         IN UnusedOverrides(declared, toolchains \ {t},
                            RemoveDeclaredOverrides(declared[t], unused))

\* ValueWithOverride(def_val).
ValueWithOverride(def_val) ==
    [default_value |-> def_val, has_override |-> FALSE,
     override_value |-> NullValue]

\* The default-values loop with operator[] assignment in place of insert().
RECURSIVE DefaultValues_Overwrite(_, _, _, _)
DefaultValues_Overwrite(declared, toolchains, i, result) ==
    IF i > Len(toolchains) THEN result
    ELSE LET value_map == declared[toolchains[i]]
         IN DefaultValues_Overwrite(declared, toolchains, i + 1,
              [n \in (DOMAIN result) \cup (DOMAIN value_map) |->
                  IF n \in DOMAIN value_map
                  THEN ValueWithOverride(value_map[n])
                  ELSE result[n]])

\* The "default values" loop of GetAllArguments: insert() keeps the entry
\* of the toolchain visited first.
RECURSIVE DefaultValues(_, _, _, _)
DefaultValues(declared, toolchains, i, result) ==
    IF i > Len(toolchains) THEN result
    ELSE LET value_map == declared[toolchains[i]]
         IN DefaultValues(declared, toolchains, i + 1,
              [n \in (DOMAIN result) \cup (DOMAIN value_map) |->
                  IF n \in DOMAIN result THEN result[n]
                  ELSE ValueWithOverride(value_map[n])])

\* The "merge in overrides" loop of GetAllArguments.
MergeOverrides(result, ovr) ==
    [n \in DOMAIN result |->
        IF n \in DOMAIN ovr
        THEN [result[n] EXCEPT !.has_override = TRUE,
                               !.override_value = ovr[n]]
        ELSE result[n]]

\* GetAllArguments for one outcome of the sort.
GetAllArguments(declared, ovr, toolchains) ==
    MergeOverrides(
        DefaultValues(declared, toolchains, 1,
                      [n \in {} |-> ValueWithOverride(NullValue)]),
        ovr)

\* ---------------------------------------------------------------- calls

\* The call just made and what it gave back to its caller.
Call(op, scope, name, args, ret, err, value, result) ==
    [op |-> op, scope |-> scope, name |-> name, args |-> args, ret |-> ret,
     err |-> err, value |-> value, result |-> result]

NoResult == [n \in {} |-> ValueWithOverride(NullValue)]

\* ---------------------------------------------------------------- threads

\* Two threads that evaluate build files of one toolchain, each in a Scope
\* of its own (scopes 3 and 4), and the front-end's own thread.
Evaluators == {1, 2}
FrontEnd == {3}
Threads == Evaluators \cup FrontEnd

ThreadScope(t) == CASE t = 1 -> 3 [] t = 2 -> 4

\* A thread that is in no call.
Idle ==
    [pc |-> "idle",
     call |-> Call("", 0, "", EmptyMap, TRUE, NoErr, NullValue, NoResult),
     todo |-> <<>>, copied |-> <<>>, seen |-> {},
     expect |-> [ret |-> TRUE, err |-> NoErr]]

\* The members of an Args instance and the scopes it has written to.
ArgsState(ovr, all, declared, tc_overrides, scs) ==
    [overrides |-> ovr, all_overrides |-> all, declared |-> declared,
     toolchain_overrides |-> tc_overrides, scopes |-> scs]

Init ==
    /\ overrides = EmptyMap
    /\ all_overrides = EmptyMap
    /\ declared_arguments_per_toolchain = [s \in {} |-> EmptyMap]
    /\ toolchain_overrides = [s \in {} |-> EmptyMap]
    /\ scopes = [sc \in ScopeIds |-> NewScope]
    /\ os_arch \in HostArchs
    /\ last = Call("Args", 0, "", EmptyMap, TRUE, NoErr, NullValue, NoResult)
    /\ nops = 0
    /\ lock_ = 0
    /\ threads = [t \in Threads |-> Idle]
    /\ serial = ArgsState(EmptyMap, EmptyMap, [s \in {} |-> EmptyMap],
                          [s \in {} |-> EmptyMap],
                          [sc \in ScopeIds |-> NewScope])

\* AddArgOverride that also writes the value into every scope that already
\* holds the name.
AddArgOverride_Retroactive(name, value) ==
    /\ nops < MaxOps
    /\ overrides' = MapSet(overrides, name, value)
    /\ all_overrides' = MapSet(all_overrides, name, value)
    /\ scopes' = [sc \in ScopeIds |->
                     IF HasValue(scopes[sc], name)
                     THEN SetValue(scopes[sc], name, value)
                     ELSE scopes[sc]]
    /\ last' = Call("AddArgOverride", 0, name, EmptyMap, TRUE, NoErr, value,
                    NoResult)
    /\ nops' = nops + 1
    /\ UNCHANGED mt_vars
    /\ UNCHANGED <<declared_arguments_per_toolchain, toolchain_overrides,
                   os_arch>>

\* AddArgOverride that leaves all_overrides_ alone.
AddArgOverride_Unrecorded(name, value) ==
    /\ nops < MaxOps
    /\ overrides' = MapSet(overrides, name, value)
    /\ last' = Call("AddArgOverride", 0, name, EmptyMap, TRUE, NoErr, value,
                    NoResult)
    /\ nops' = nops + 1
    /\ UNCHANGED mt_vars
    /\ UNCHANGED <<all_overrides, declared_arguments_per_toolchain,
                   toolchain_overrides, scopes, os_arch>>

AddArgOverride(name, value) ==
    /\ nops < MaxOps
    /\ overrides' = MapSet(overrides, name, value)
    /\ all_overrides' = MapSet(all_overrides, name, value)
    /\ last' = Call("AddArgOverride", 0, name, EmptyMap, TRUE, NoErr, value,
                    NoResult)
    /\ nops' = nops + 1
    /\ UNCHANGED mt_vars
    /\ UNCHANGED <<declared_arguments_per_toolchain, toolchain_overrides,
                   scopes, os_arch>>

\* AddArgOverrides that keeps an entry all_overrides_ already has.
AddArgOverrides_KeepFirst(map) ==
    /\ nops < MaxOps
    /\ overrides' = MapSetAll(overrides, map)
    /\ all_overrides' = MapSetAll(map, all_overrides)
    /\ last' = Call("AddArgOverrides", 0, "", map, TRUE, NoErr, NullValue,
                    NoResult)
    /\ nops' = nops + 1
    /\ UNCHANGED mt_vars
    /\ UNCHANGED <<declared_arguments_per_toolchain, toolchain_overrides,
                   scopes, os_arch>>

AddArgOverrides(map) ==
    /\ nops < MaxOps
    /\ overrides' = MapSetAll(overrides, map)
    /\ all_overrides' = MapSetAll(all_overrides, map)
    /\ last' = Call("AddArgOverrides", 0, "", map, TRUE, NoErr, NullValue,
                    NoResult)
    /\ nops' = nops + 1
    /\ UNCHANGED mt_vars
    /\ UNCHANGED <<declared_arguments_per_toolchain, toolchain_overrides,
                   scopes, os_arch>>

\* AddDefaultArgOverrides that also records the entries for the audit.
AddDefaultArgOverrides_Recorded(map) ==
    /\ nops < MaxOps
    /\ overrides' = MapSetAll(overrides, map)
    /\ all_overrides' = MapSetAll(all_overrides, map)
    /\ last' = Call("AddDefaultArgOverrides", 0, "", map, TRUE, NoErr,
                    NullValue, NoResult)
    /\ nops' = nops + 1
    /\ UNCHANGED mt_vars
    /\ UNCHANGED <<declared_arguments_per_toolchain, toolchain_overrides,
                   scopes, os_arch>>

AddDefaultArgOverrides(map) ==
    /\ nops < MaxOps
    /\ overrides' = MapSetAll(overrides, map)
    /\ last' = Call("AddDefaultArgOverrides", 0, "", map, TRUE, NoErr,
                    NullValue, NoResult)
    /\ nops' = nops + 1
    /\ UNCHANGED mt_vars
    /\ UNCHANGED <<all_overrides, declared_arguments_per_toolchain,
                   toolchain_overrides, scopes, os_arch>>

\* SetupRootScope merging its toolchain_overrides argument into the map
\* stored for the Settings instead of assigning it.
SetupRootScope_Merged(dest, tc_overrides) ==
    /\ nops < MaxOps
    /\ HostCpu(os_arch) # "fatal"
    /\ LET settings == ScopeSettings(dest)
           seeded == SetSystemVarsLocked(scopes[dest],
                        declared_arguments_per_toolchain, settings, os_arch)
           declared_arguments == seeded.declared[settings]
           scope1 == ApplyOverridesLocked(overrides, seeded.scope,
                                          declared_arguments)
           scope2 == ApplyOverridesLocked(tc_overrides, scope1,
                                          declared_arguments)
       IN  /\ scopes' = [scopes EXCEPT ![dest] = scope2]
           /\ declared_arguments_per_toolchain' = seeded.declared
           /\ toolchain_overrides' =
                  TableSet(toolchain_overrides, settings,
                           MapSetAll(OverridesOf(toolchain_overrides, settings),
                                     tc_overrides))
           /\ all_overrides' =
                  SaveOverrideRecordLocked(all_overrides, tc_overrides)
    /\ last' = Call("SetupRootScope", dest, "", tc_overrides, TRUE, NoErr,
                    NullValue, NoResult)
    /\ nops' = nops + 1
    /\ UNCHANGED mt_vars
    /\ UNCHANGED <<overrides, os_arch>>

\* SetupRootScope applying the toolchain overrides before the global ones.
SetupRootScope_ToolchainFirst(dest, tc_overrides) ==
    /\ nops < MaxOps
    /\ HostCpu(os_arch) # "fatal"
    /\ LET settings == ScopeSettings(dest)
           seeded == SetSystemVarsLocked(scopes[dest],
                        declared_arguments_per_toolchain, settings, os_arch)
           declared_arguments == seeded.declared[settings]
           scope1 == ApplyOverridesLocked(tc_overrides, seeded.scope,
                                          declared_arguments)
           scope2 == ApplyOverridesLocked(overrides, scope1,
                                          declared_arguments)
       IN  /\ scopes' = [scopes EXCEPT ![dest] = scope2]
           /\ declared_arguments_per_toolchain' = seeded.declared
           /\ toolchain_overrides' =
                  TableSet(toolchain_overrides, settings, tc_overrides)
           /\ all_overrides' =
                  SaveOverrideRecordLocked(all_overrides, tc_overrides)
    /\ last' = Call("SetupRootScope", dest, "", tc_overrides, TRUE, NoErr,
                    NullValue, NoResult)
    /\ nops' = nops + 1
    /\ UNCHANGED mt_vars
    /\ UNCHANGED <<overrides, os_arch>>

SetupRootScope(dest, tc_overrides) ==
    /\ nops < MaxOps
    /\ HostCpu(os_arch) # "fatal"
    /\ LET settings == ScopeSettings(dest)
           seeded == SetSystemVarsLocked(scopes[dest],
                        declared_arguments_per_toolchain, settings, os_arch)
           declared_arguments == seeded.declared[settings]
           scope1 == ApplyOverridesLocked(overrides, seeded.scope,
                                          declared_arguments)
           scope2 == ApplyOverridesLocked(tc_overrides, scope1,
                                          declared_arguments)
       IN  /\ scopes' = [scopes EXCEPT ![dest] = scope2]
           /\ declared_arguments_per_toolchain' = seeded.declared
           /\ toolchain_overrides' =
                  TableSet(toolchain_overrides, settings, tc_overrides)
           /\ all_overrides' =
                  SaveOverrideRecordLocked(all_overrides, tc_overrides)
    /\ last' = Call("SetupRootScope", dest, "", tc_overrides, TRUE, NoErr,
                    NullValue, NoResult)
    /\ nops' = nops + 1
    /\ UNCHANGED mt_vars
    /\ UNCHANGED <<overrides, os_arch>>

\* DeclareArgs that takes the names it declares out of all_overrides_ as it
\* uses them.
DeclareArgs_ConsumesOverrides(args, scope_to_set) ==
    /\ nops < MaxOps
    /\ \E order \in Orders(DOMAIN args) :
         LET settings == ScopeSettings(scope_to_set)
             out == DeclareArgsLoop(args, order, 1,
                      DeclaredOf(declared_arguments_per_toolchain, settings),
                      OverridesOf(toolchain_overrides, settings),
                      overrides, scopes[scope_to_set])
         IN  /\ declared_arguments_per_toolchain' =
                    TableSet(declared_arguments_per_toolchain, settings,
                             out.declared)
             /\ toolchain_overrides' =
                    TableSet(toolchain_overrides, settings,
                             OverridesOf(toolchain_overrides, settings))
             /\ all_overrides' =
                    RemoveDeclaredOverrides(out.declared, all_overrides)
             /\ scopes' = [scopes EXCEPT ![scope_to_set] = out.scope]
             /\ last' = Call("DeclareArgs", scope_to_set, "", args, out.ret,
                             out.err, NullValue, NoResult)
    /\ nops' = nops + 1
    /\ UNCHANGED mt_vars
    /\ UNCHANGED <<overrides, os_arch>>

DeclareArgs(args, scope_to_set) ==
    /\ nops < MaxOps
    /\ \E order \in Orders(DOMAIN args) :
         LET settings == ScopeSettings(scope_to_set)
             out == DeclareArgsLoop(args, order, 1,
                      DeclaredOf(declared_arguments_per_toolchain, settings),
                      OverridesOf(toolchain_overrides, settings),
                      overrides, scopes[scope_to_set])
         IN  /\ declared_arguments_per_toolchain' =
                    TableSet(declared_arguments_per_toolchain, settings,
                             out.declared)
             /\ toolchain_overrides' =
                    TableSet(toolchain_overrides, settings,
                             OverridesOf(toolchain_overrides, settings))
             /\ scopes' = [scopes EXCEPT ![scope_to_set] = out.scope]
             /\ last' = Call("DeclareArgs", scope_to_set, "", args, out.ret,
                             out.err, NullValue, NoResult)
    /\ nops' = nops + 1
    /\ UNCHANGED mt_vars
    /\ UNCHANGED <<overrides, all_overrides, os_arch>>

\* VerifyAllOverridesUsed erasing the declared names from all_overrides_
\* itself instead of from a copy of it.
VerifyAllOverridesUsed_InPlace ==
    /\ nops < MaxOps
    /\ LET unused_overrides ==
               UnusedOverrides(declared_arguments_per_toolchain,
                               DOMAIN declared_arguments_per_toolchain,
                               all_overrides)
       IN  /\ all_overrides' = unused_overrides
           /\ IF DOMAIN unused_overrides = {}
              THEN last' = Call("VerifyAllOverridesUsed", 0, "", EmptyMap,
                                TRUE, NoErr, NullValue, NoResult)
              ELSE \E name \in DOMAIN unused_overrides :
                     last' = Call("VerifyAllOverridesUsed", 0, name, EmptyMap,
                                  FALSE,
                                  Err(unused_overrides[name].origin,
                                      kNoEffectTitle, <<>>),
                                  unused_overrides[name], NoResult)
    /\ nops' = nops + 1
    /\ UNCHANGED mt_vars
    /\ UNCHANGED <<overrides, declared_arguments_per_toolchain,
                   toolchain_overrides, scopes, os_arch>>

\* VerifyAllOverridesUsed counting an override as used only when a toolchain
\* that declares the name is one the override applies to: every toolchain
\* for a global override, the toolchain it was supplied for otherwise.
VerifyAllOverridesUsed_PerToolchain ==
    /\ nops < MaxOps
    /\ LET used == {n \in DOMAIN all_overrides :
                      \E s \in DOMAIN declared_arguments_per_toolchain :
                         /\ n \in DOMAIN declared_arguments_per_toolchain[s]
                         /\ \/ n \in DOMAIN overrides
                            \/ n \in DOMAIN OverridesOf(toolchain_overrides, s)}
           unused_overrides ==
               [n \in (DOMAIN all_overrides) \ used |-> all_overrides[n]]
       IN  IF DOMAIN unused_overrides = {}
           THEN last' = Call("VerifyAllOverridesUsed", 0, "", EmptyMap, TRUE,
                             NoErr, NullValue, NoResult)
           ELSE \E name \in DOMAIN unused_overrides :
                  last' = Call("VerifyAllOverridesUsed", 0, name, EmptyMap,
                               FALSE,
                               Err(unused_overrides[name].origin,
                                   kNoEffectTitle, <<>>),
                               unused_overrides[name], NoResult)
    /\ nops' = nops + 1
    /\ UNCHANGED mt_vars
    /\ UNCHANGED <<args_vars, scopes, os_arch>>

\* VerifyAllOverridesUsed anchoring its Err at the origin of any unused
\* override, not of the one it names.
VerifyAllOverridesUsed_AnchoredAnywhere ==
    /\ nops < MaxOps
    /\ LET unused_overrides ==
               UnusedOverrides(declared_arguments_per_toolchain,
                               DOMAIN declared_arguments_per_toolchain,
                               all_overrides)
       IN  IF DOMAIN unused_overrides = {}
           THEN last' = Call("VerifyAllOverridesUsed", 0, "", EmptyMap, TRUE,
                             NoErr, NullValue, NoResult)
           ELSE \E name \in DOMAIN unused_overrides,
                   other \in DOMAIN unused_overrides :
                  last' = Call("VerifyAllOverridesUsed", 0, name, EmptyMap,
                               FALSE,
                               Err(unused_overrides[other].origin,
                                   kNoEffectTitle, <<>>),
                               unused_overrides[name], NoResult)
    /\ nops' = nops + 1
    /\ UNCHANGED mt_vars
    /\ UNCHANGED <<args_vars, scopes, os_arch>>

VerifyAllOverridesUsed ==
    /\ nops < MaxOps
    /\ LET unused_overrides ==
               UnusedOverrides(declared_arguments_per_toolchain,
                               DOMAIN declared_arguments_per_toolchain,
                               all_overrides)
       IN  IF DOMAIN unused_overrides = {}
           THEN last' = Call("VerifyAllOverridesUsed", 0, "", EmptyMap, TRUE,
                             NoErr, NullValue, NoResult)
           ELSE \E name \in DOMAIN unused_overrides :
                  last' = Call("VerifyAllOverridesUsed", 0, name, EmptyMap,
                               FALSE,
                               Err(unused_overrides[name].origin,
                                   kNoEffectTitle, <<>>),
                               unused_overrides[name], NoResult)
    /\ nops' = nops + 1
    /\ UNCHANGED mt_vars
    /\ UNCHANGED <<args_vars, scopes, os_arch>>

\* GetArgOverride looking the name up in overrides_.
CallGetArgOverride_InOverrides(name) ==
    /\ nops < MaxOps
    /\ LET found == GetArgOverride(overrides, name)
       IN last' = Call("GetArgOverride", 0, name, EmptyMap, found.found,
                       NoErr, found.value, NoResult)
    /\ nops' = nops + 1
    /\ UNCHANGED mt_vars
    /\ UNCHANGED <<args_vars, scopes, os_arch>>

CallGetArgOverride(name) ==
    /\ nops < MaxOps
    /\ LET found == GetArgOverride(all_overrides, name)
       IN last' = Call("GetArgOverride", 0, name, EmptyMap, found.found,
                       NoErr, found.value, NoResult)
    /\ nops' = nops + 1
    /\ UNCHANGED mt_vars
    /\ UNCHANGED <<args_vars, scopes, os_arch>>

CallGetArgFromAllArguments(name) ==
    /\ nops < MaxOps
    /\ \E toolchains \in
            GetSortedToolchainsLocked(declared_arguments_per_toolchain) :
         LET found == GetArgFromAllArguments(all_overrides,
                          declared_arguments_per_toolchain, toolchains, name)
         IN last' = Call("GetArgFromAllArguments", 0, name, EmptyMap,
                         found.found, NoErr, found.value, NoResult)
    /\ nops' = nops + 1
    /\ UNCHANGED mt_vars
    /\ UNCHANGED <<args_vars, scopes, os_arch>>

CallGetAllArguments ==
    /\ nops < MaxOps
    /\ \E toolchains \in
            GetSortedToolchainsLocked(declared_arguments_per_toolchain) :
         last' = Call("GetAllArguments", 0, "", EmptyMap, TRUE, NoErr,
                      NullValue,
                      GetAllArguments(declared_arguments_per_toolchain,
                                      overrides, toolchains))
    /\ nops' = nops + 1
    /\ UNCHANGED mt_vars
    /\ UNCHANGED <<args_vars, scopes, os_arch>>

Next ==
    \/ \E name \in ArgNames, value \in OverrideValues :
          AddArgOverride(name, value)
    \/ \E map \in OverrideMaps : AddArgOverrides(map)
    \/ \E map \in OverrideMaps : AddDefaultArgOverrides(map)
    \/ \E dest \in ScopeIds :
          \E tc_overrides \in ToolchainArgs(ScopeSettings(dest)) :
             SetupRootScope(dest, tc_overrides)
    \/ \E args \in DeclMaps, scope_to_set \in ScopeIds :
          DeclareArgs(args, scope_to_set)
    \/ VerifyAllOverridesUsed
    \/ \E name \in ArgNames : CallGetArgOverride(name)
    \/ \E name \in ArgNames : CallGetArgFromAllArguments(name)
    \/ CallGetAllArguments

Spec == Init /\ [][Next]_vars

\* ---------------------------------------------------------------- whole calls

\* AddArgOverride / AddArgOverrides (recorded) and AddDefaultArgOverrides
\* (not recorded) run from beginning to end on st.
SerialAddArgOverrides(st, given, recorded) ==
    [st EXCEPT !.overrides = MapSetAll(@, given),
               !.all_overrides = IF recorded THEN MapSetAll(@, given) ELSE @]

\* SetupRootScope run from beginning to end on st.
SerialSetupRootScope(st, dest, tc_overrides, arch) ==
    LET settings == ScopeSettings(dest)
        seeded == SetSystemVarsLocked(st.scopes[dest], st.declared, settings,
                                      arch)
        declared_arguments == seeded.declared[settings]
        scope1 == ApplyOverridesLocked(st.overrides, seeded.scope,
                                       declared_arguments)
        scope2 == ApplyOverridesLocked(tc_overrides, scope1,
                                       declared_arguments)
    IN  ArgsState(st.overrides,
                  SaveOverrideRecordLocked(st.all_overrides, tc_overrides),
                  seeded.declared,
                  TableSet(st.toolchain_overrides, settings, tc_overrides),
                  [st.scopes EXCEPT ![dest] = scope2])

\* DeclareArgs run from beginning to end on st, its map yielding its names
\* in the given order.
SerialDeclareArgs(st, args, scope_to_set, order) ==
    LET settings == ScopeSettings(scope_to_set)
        out == DeclareArgsLoop(args, order, 1,
                   DeclaredOf(st.declared, settings),
                   OverridesOf(st.toolchain_overrides, settings),
                   st.overrides, st.scopes[scope_to_set])
    IN  [st |-> ArgsState(st.overrides, st.all_overrides,
                          TableSet(st.declared, settings, out.declared),
                          TableSet(st.toolchain_overrides, settings,
                                   OverridesOf(st.toolchain_overrides,
                                               settings)),
                          [st.scopes EXCEPT ![scope_to_set] = out.scope]),
         ret |-> out.ret, err |-> out.err]

\* ---------------------------------------------------------------- threaded calls

\* The entries a registration call writes.
Given(call) ==
    IF call.op = "AddArgOverride"
    THEN [n \in {call.name} |-> call.value]
    ELSE call.args

\* Registration calls the threads make.
AddCalls ==
    {Call("AddArgOverride", 0, "a", EmptyMap, TRUE, NoErr, v, NoResult) :
        v \in OverrideValues}
    \cup {Call("AddArgOverrides", 0, "",
               [n \in {"b", kCurrentOs} |-> Value(3, "o2")],
               TRUE, NoErr, NullValue, NoResult)}
    \cup {Call("AddDefaultArgOverrides", 0, "",
               [n \in {"a"} |-> Value(nullptr, "o1")],
               TRUE, NoErr, NullValue, NoResult)}

\* toolchain_args of the evaluated toolchain, as SetupRootScope gets them.
ThreadToolchainArgs ==
    {EmptyMap, [n \in {"b", kCurrentOs} |-> Value(3, "o2")]}

\* declare_args() blocks the evaluators come across.
ThreadDeclMaps ==
    {[n \in {"a"} |-> Value(1, "d1")], [n \in {"a", "b"} |-> Value(2, "d1")]}

\* The calls that read Args and return a view of it.
ReaderOps == {"GetArgFromAllArguments", "GetAllArguments"}

\* What a reader can have seen of Args at one instant.
Snapshot(ovr, all, declared) ==
    [overrides |-> ovr, all_overrides |-> all, declared |-> declared]

\* Every reader in a call takes note of the state Args has now.
Observe(ths, snap) ==
    [t \in Threads |->
        IF ths[t].pc # "idle" /\ ths[t].call.op \in ReaderOps
        THEN [ths[t] EXCEPT !.seen = @ \cup {snap}]
        ELSE ths[t]]

\* std::lock_guard that excludes nobody.
CanLock_NoExclusion(t) == TRUE

\* std::lock_guard<std::mutex> lock(lock_): t can take the mutex.
CanLock(t) == lock_ = 0

\* lock_guard's destructor when the call returns: the mutex as the call
\* leaves it.
Unlocked(t) == IF lock_ = t THEN 0 ELSE lock_

\* AddArgOverride, AddArgOverrides, AddDefaultArgOverrides: the call takes
\* the mutex and is about to write its first entry.
BeginAddArgOverrides(t, call) ==
    /\ nops < MaxOps
    /\ threads[t].pc = "idle"
    /\ CanLock(t)
    /\ lock_' = t
    /\ \E order \in Orders(DOMAIN Given(call)) :
          threads' = [threads EXCEPT ![t] =
                         [Idle EXCEPT !.pc = "overrides", !.call = call,
                                      !.todo = order]]
    /\ serial' = SerialAddArgOverrides(serial, Given(call),
                     call.op # "AddDefaultArgOverrides")
    /\ nops' = nops + 1
    /\ UNCHANGED <<args_vars, scopes, os_arch, last>>

\* overrides_[name] = value; AddDefaultArgOverrides returns after its last.
WriteOverrides(t) ==
    /\ threads[t].pc = "overrides"
    /\ LET me == threads[t]
           name == Head(me.todo)
           recorded == me.call.op # "AddDefaultArgOverrides"
           returns == ~recorded /\ Len(me.todo) = 1
       IN  /\ overrides' = MapSet(overrides, name, Given(me.call)[name])
           /\ threads' = Observe(
                  [threads EXCEPT ![t] =
                      IF returns THEN Idle
                      ELSE IF recorded
                      THEN [me EXCEPT !.pc = "all_overrides"]
                      ELSE [me EXCEPT !.todo = Tail(me.todo)]],
                  Snapshot(overrides', all_overrides,
                           declared_arguments_per_toolchain))
           /\ lock_' = IF returns THEN Unlocked(t) ELSE lock_
           /\ last' = IF returns THEN me.call ELSE last
    /\ UNCHANGED <<all_overrides, declared_arguments_per_toolchain,
                   toolchain_overrides, scopes, os_arch, nops, serial>>

\* all_overrides_[name] = value; the call returns after its last entry.
WriteAllOverrides(t) ==
    /\ threads[t].pc = "all_overrides"
    /\ LET me == threads[t]
           name == Head(me.todo)
           returns == Len(me.todo) = 1
       IN  /\ all_overrides' = MapSet(all_overrides, name, Given(me.call)[name])
           /\ threads' = Observe(
                  [threads EXCEPT ![t] =
                      IF returns THEN Idle
                      ELSE [me EXCEPT !.pc = "overrides",
                                      !.todo = Tail(me.todo)]],
                  Snapshot(overrides, all_overrides',
                           declared_arguments_per_toolchain))
           /\ lock_' = IF returns THEN Unlocked(t) ELSE lock_
           /\ last' = IF returns THEN me.call ELSE last
    /\ UNCHANGED <<overrides, declared_arguments_per_toolchain,
                   toolchain_overrides, scopes, os_arch, nops, serial>>

\* SetupRootScope on the thread's own scope: the call takes the mutex.
BeginSetupRootScope(t, tc_overrides) ==
    /\ nops < MaxOps
    /\ threads[t].pc = "idle"
    /\ CanLock(t)
    /\ HostCpu(os_arch) # "fatal"
    /\ lock_' = t
    /\ threads' = [threads EXCEPT ![t] =
           [Idle EXCEPT !.pc = "SetSystemVars",
                        !.call = Call("SetupRootScope", ThreadScope(t), "",
                                      tc_overrides, TRUE, NoErr, NullValue,
                                      NoResult)]]
    /\ serial' = SerialSetupRootScope(serial, ThreadScope(t), tc_overrides,
                                      os_arch)
    /\ nops' = nops + 1
    /\ UNCHANGED <<args_vars, scopes, os_arch, last>>

\* SetSystemVarsLocked(dest).
StepSetSystemVars(t) ==
    /\ threads[t].pc = "SetSystemVars"
    /\ LET dest == threads[t].call.scope
           seeded == SetSystemVarsLocked(scopes[dest],
                        declared_arguments_per_toolchain,
                        ScopeSettings(dest), os_arch)
       IN  /\ scopes' = [scopes EXCEPT ![dest] = seeded.scope]
           /\ declared_arguments_per_toolchain' = seeded.declared
           /\ threads' = Observe(
                  [threads EXCEPT ![t].pc = "ApplyOverrides"],
                  Snapshot(overrides, all_overrides, seeded.declared))
    /\ UNCHANGED <<overrides, all_overrides, toolchain_overrides, os_arch,
                   last, nops, lock_, serial>>

\* ApplyOverridesLocked(overrides_, dest).
StepApplyOverrides(t) ==
    /\ threads[t].pc = "ApplyOverrides"
    /\ LET dest == threads[t].call.scope
       IN  scopes' = [scopes EXCEPT ![dest] =
               ApplyOverridesLocked(overrides, scopes[dest],
                   DeclaredOf(declared_arguments_per_toolchain,
                              ScopeSettings(dest)))]
    /\ threads' = [threads EXCEPT ![t].pc = "ApplyToolchainOverrides"]
    /\ UNCHANGED <<args_vars, os_arch, last, nops, lock_, serial>>

\* ApplyOverridesLocked(toolchain_overrides, dest).
StepApplyToolchainOverrides(t) ==
    /\ threads[t].pc = "ApplyToolchainOverrides"
    /\ LET dest == threads[t].call.scope
       IN  scopes' = [scopes EXCEPT ![dest] =
               ApplyOverridesLocked(threads[t].call.args, scopes[dest],
                   DeclaredOf(declared_arguments_per_toolchain,
                              ScopeSettings(dest)))]
    /\ threads' = [threads EXCEPT ![t].pc = "StoreToolchainOverrides"]
    /\ UNCHANGED <<args_vars, os_arch, last, nops, lock_, serial>>

\* OverridesForToolchainLocked(dest) = toolchain_overrides.
StepStoreToolchainOverrides(t) ==
    /\ threads[t].pc = "StoreToolchainOverrides"
    /\ toolchain_overrides' =
           TableSet(toolchain_overrides,
                    ScopeSettings(threads[t].call.scope),
                    threads[t].call.args)
    /\ threads' = [threads EXCEPT ![t].pc = "SaveOverrideRecord"]
    /\ UNCHANGED <<overrides, all_overrides, declared_arguments_per_toolchain,
                   scopes, os_arch, last, nops, lock_, serial>>

\* SaveOverrideRecordLocked(toolchain_overrides), and the call returns.
StepSaveOverrideRecord(t) ==
    /\ threads[t].pc = "SaveOverrideRecord"
    /\ all_overrides' =
           SaveOverrideRecordLocked(all_overrides, threads[t].call.args)
    /\ threads' = Observe([threads EXCEPT ![t] = Idle],
                          Snapshot(overrides, all_overrides',
                                   declared_arguments_per_toolchain))
    /\ lock_' = Unlocked(t)
    /\ last' = threads[t].call
    /\ UNCHANGED <<overrides, declared_arguments_per_toolchain,
                   toolchain_overrides, scopes, os_arch, nops, serial>>

\* DeclareArgs on the thread's own scope: the call takes the mutex and
\* looks up (creating them) the toolchain's declared arguments and
\* overrides.
BeginDeclareArgs(t, args) ==
    /\ nops < MaxOps
    /\ threads[t].pc = "idle"
    /\ CanLock(t)
    /\ lock_' = t
    /\ LET settings == ScopeSettings(ThreadScope(t))
       IN  /\ declared_arguments_per_toolchain' =
                  TableSet(declared_arguments_per_toolchain, settings,
                      DeclaredOf(declared_arguments_per_toolchain, settings))
           /\ toolchain_overrides' =
                  TableSet(toolchain_overrides, settings,
                           OverridesOf(toolchain_overrides, settings))
    /\ \E order \in Orders(DOMAIN args) :
          LET whole == SerialDeclareArgs(serial, args, ThreadScope(t), order)
          IN  /\ threads' = Observe(
                     [threads EXCEPT ![t] =
                         [Idle EXCEPT !.pc = "declare",
                                      !.call = Call("DeclareArgs",
                                          ThreadScope(t), "", args, TRUE,
                                          NoErr, NullValue, NoResult),
                                      !.todo = order,
                                      !.expect = [ret |-> whole.ret,
                                                  err |-> whole.err]]],
                     Snapshot(overrides, all_overrides,
                              declared_arguments_per_toolchain'))
              /\ serial' = whole.st
    /\ nops' = nops + 1
    /\ UNCHANGED <<overrides, all_overrides, scopes, os_arch, last>>

\* One iteration of the DeclareArgs loop, or the return after the last.
StepDeclareArg(t) ==
    /\ threads[t].pc = "declare"
    /\ LET me == threads[t]
           settings == ScopeSettings(me.call.scope)
           out == DeclareArgsLoop(me.call.args, <<Head(me.todo)>>, 1,
                      declared_arguments_per_toolchain[settings],
                      toolchain_overrides[settings], overrides,
                      scopes[me.call.scope])
       IN  IF me.todo = <<>>
           THEN /\ threads' = [threads EXCEPT ![t] = Idle]
                /\ lock_' = Unlocked(t)
                /\ last' = me.call
                /\ UNCHANGED <<declared_arguments_per_toolchain, scopes>>
           ELSE IF ~out.ret
           THEN /\ threads' = [threads EXCEPT ![t] = Idle]
                /\ lock_' = Unlocked(t)
                /\ last' = [me.call EXCEPT !.ret = FALSE, !.err = out.err]
                /\ UNCHANGED <<declared_arguments_per_toolchain, scopes>>
           ELSE /\ declared_arguments_per_toolchain' =
                       TableSet(declared_arguments_per_toolchain, settings,
                                out.declared)
                /\ scopes' = [scopes EXCEPT ![me.call.scope] = out.scope]
                /\ threads' = Observe(
                       [threads EXCEPT ![t].todo = Tail(me.todo)],
                       Snapshot(overrides, all_overrides,
                                declared_arguments_per_toolchain'))
                /\ UNCHANGED <<lock_, last>>
    /\ UNCHANGED <<overrides, all_overrides, toolchain_overrides, os_arch,
                   nops, serial>>

\* What a read that races with a write can come back with.
TornValue == Value(nullptr, "<torn>")

\* The threads other than t that are, under the mutex, at a write of the
\* all_overrides_ entry of name.
EntryWriters(t, name) ==
    {u \in Threads \ {t} :
        \/ threads[u].pc = "all_overrides" /\ Head(threads[u].todo) = name
        \/ threads[u].pc = "SaveOverrideRecord"
              /\ name \in DOMAIN threads[u].call.args}

\* GetArgFromAllArguments: its call of GetArgOverride, which takes the
\* mutex, looks the name up, releases the mutex and hands back a pointer to
\* the entry or null.
BeginGetArgFromAllArguments(t, name) ==
    /\ nops < MaxOps
    /\ threads[t].pc = "idle"
    /\ CanLock(t)
    /\ threads' = [threads EXCEPT ![t] =
           [Idle EXCEPT !.pc = IF GetArgOverride(all_overrides, name).found
                                THEN "copy_override" ELSE "lock_again",
                        !.call = Call("GetArgFromAllArguments", 0, name,
                                      EmptyMap, FALSE, NoErr, NullValue,
                                      NoResult),
                        !.seen = {Snapshot(overrides, all_overrides,
                                      declared_arguments_per_toolchain)}]]
    /\ nops' = nops + 1
    /\ UNCHANGED <<args_vars, scopes, os_arch, last, lock_, serial>>

\* return std::make_optional(*override): the entry is copied with the
\* mutex released; while another thread is writing it the copy is any of
\* the old value, the new value or neither.
StepCopyOverride(t) ==
    /\ threads[t].pc = "copy_override"
    /\ LET name == threads[t].call.name
           racing == EntryWriters(t, name)
       IN  \E value \in {all_overrides[name]}
                        \cup {Given(threads[u].call)[name] : u \in racing}
                        \cup (IF racing = {} THEN {} ELSE {TornValue}) :
              last' = [threads[t].call EXCEPT !.ret = TRUE, !.value = value]
    /\ threads' = [threads EXCEPT ![t] = Idle]
    /\ UNCHANGED <<args_vars, scopes, os_arch, nops, lock_, serial>>

\* The second half of GetArgFromAllArguments: takes the mutex again, scans
\* the sorted toolchains for the name and returns.
StepScanToolchains(t) ==
    /\ threads[t].pc = "lock_again"
    /\ CanLock(t)
    /\ \E toolchains \in
            GetSortedToolchainsLocked(declared_arguments_per_toolchain) :
          LET found == FirstDeclared(declared_arguments_per_toolchain,
                                     toolchains, 1, threads[t].call.name)
          IN  last' = [threads[t].call EXCEPT !.ret = found.found,
                                              !.value = found.value]
    /\ threads' = [threads EXCEPT ![t] = Idle]
    /\ UNCHANGED <<args_vars, scopes, os_arch, nops, lock_, serial>>

\* GetAllArguments: takes the mutex, sorts the toolchains and collects the
\* default values.
BeginGetAllArguments(t) ==
    /\ nops < MaxOps
    /\ threads[t].pc = "idle"
    /\ CanLock(t)
    /\ lock_' = t
    /\ \E toolchains \in
            GetSortedToolchainsLocked(declared_arguments_per_toolchain) :
          threads' = [threads EXCEPT ![t] =
              [Idle EXCEPT !.pc = "merge",
                           !.call = Call("GetAllArguments", 0, "", EmptyMap,
                                TRUE, NoErr, NullValue,
                                DefaultValues(declared_arguments_per_toolchain,
                                              toolchains, 1, NoResult)),
                           !.seen = {Snapshot(overrides, all_overrides,
                                         declared_arguments_per_toolchain)}]]
    /\ nops' = nops + 1
    /\ UNCHANGED <<args_vars, scopes, os_arch, last, serial>>

\* The "merge in overrides" loop of GetAllArguments, and the return.
StepMergeOverrides(t) ==
    /\ threads[t].pc = "merge"
    /\ last' = [threads[t].call EXCEPT
                   !.result = MergeOverrides(@, overrides)]
    /\ threads' = [threads EXCEPT ![t] = Idle]
    /\ lock_' = Unlocked(t)
    /\ UNCHANGED <<args_vars, scopes, os_arch, nops, serial>>

\* A member copied by the copy constructor: as it is, or torn when another
\* thread is writing it.
RacyCopy(t, map, writer_pcs) ==
    {[torn |-> FALSE, map |-> map]}
    \cup (IF \E u \in Threads \ {t} : threads[u].pc \in writer_pcs
          THEN {[torn |-> TRUE, map |-> map]} ELSE {})

\* Args(const Args& other) with this instance as other: overrides_ is
\* copied, no mutex taken.
BeginCopy(t) ==
    /\ nops < MaxOps
    /\ threads[t].pc = "idle"
    /\ \E copy \in RacyCopy(t, overrides, {"overrides"}) :
          threads' = [threads EXCEPT ![t] =
              [Idle EXCEPT !.pc = "copy_all_overrides",
                           !.call = Call("Args(const Args&)", 0, "", EmptyMap,
                                         TRUE, NoErr, NullValue, NoResult),
                           !.copied = <<copy>>]]
    /\ nops' = nops + 1
    /\ UNCHANGED <<args_vars, scopes, os_arch, last, lock_, serial>>

\* all_overrides_(other.all_overrides_).
StepCopyAllOverrides(t) ==
    /\ threads[t].pc = "copy_all_overrides"
    /\ \E copy \in RacyCopy(t, all_overrides,
                            {"all_overrides", "SaveOverrideRecord"}) :
          threads' = [threads EXCEPT ![t].pc = "copy_declared",
                                     ![t].copied = Append(@, copy)]
    /\ UNCHANGED <<args_vars, scopes, os_arch, last, nops, lock_, serial>>

\* declared_arguments_per_toolchain_(other....).
StepCopyDeclared(t) ==
    /\ threads[t].pc = "copy_declared"
    /\ \E copy \in RacyCopy(t, declared_arguments_per_toolchain,
                            {"SetSystemVars", "declare"}) :
          threads' = [threads EXCEPT ![t].pc = "copy_toolchain_overrides",
                                     ![t].copied = Append(@, copy)]
    /\ UNCHANGED <<args_vars, scopes, os_arch, last, nops, lock_, serial>>

\* toolchain_overrides_(other.toolchain_overrides_), and the constructor
\* returns.
StepCopyToolchainOverrides(t) ==
    /\ threads[t].pc = "copy_toolchain_overrides"
    /\ \E copy \in RacyCopy(t, toolchain_overrides,
                            {"StoreToolchainOverrides"}) :
          last' = [threads[t].call EXCEPT
                      !.ret = \A i \in 1..3 : ~threads[t].copied[i].torn
                              /\ ~copy.torn]
    /\ threads' = [threads EXCEPT ![t] = Idle]
    /\ UNCHANGED <<args_vars, scopes, os_arch, nops, lock_, serial>>

NextMT ==
    \/ \E t \in FrontEnd, call \in AddCalls : BeginAddArgOverrides(t, call)
    \/ \E t \in Threads : WriteOverrides(t)
    \/ \E t \in Threads : WriteAllOverrides(t)
    \/ \E t \in Evaluators, tc_overrides \in ThreadToolchainArgs :
          BeginSetupRootScope(t, tc_overrides)
    \/ \E t \in Threads : StepSetSystemVars(t)
    \/ \E t \in Threads : StepApplyOverrides(t)
    \/ \E t \in Threads : StepApplyToolchainOverrides(t)
    \/ \E t \in Threads : StepStoreToolchainOverrides(t)
    \/ \E t \in Threads : StepSaveOverrideRecord(t)
    \/ \E t \in Evaluators, args \in ThreadDeclMaps : BeginDeclareArgs(t, args)
    \/ \E t \in Threads : StepDeclareArg(t)
    \/ \E t \in Evaluators : BeginGetArgFromAllArguments(t, "a")
    \/ \E t \in Threads : StepCopyOverride(t)
    \/ \E t \in Threads : StepScanToolchains(t)
    \/ \E t \in FrontEnd : BeginGetAllArguments(t)
    \/ \E t \in Threads : StepMergeOverrides(t)
    \/ \E t \in FrontEnd : BeginCopy(t)
    \/ \E t \in Threads : StepCopyAllOverrides(t)
    \/ \E t \in Threads : StepCopyDeclared(t)
    \/ \E t \in Threads : StepCopyToolchainOverrides(t)

\* Threads calling into one shared Args instance.
SpecMT == Init /\ [][NextMT]_vars

\* ---------------------------------------------------------------- claims

\* The toolchain a call's scope belongs to, and what Args holds for it.
LastSettings == ScopeSettings(last.scope)
LastToolchainOverrides == OverridesOf(toolchain_overrides, LastSettings)

\* C1: an ordinary (non-system) name becomes visible in a scope, while not
\* yet declared for the scope's toolchain, only through DeclareArgs on
\* that scope with the name among its arguments - never through
\* SetupRootScope, whatever global or toolchain override of it is pending;
\* and right after SetupRootScope every system variable that has a
\* toolchain override holds it, and one that has only a global override
\* holds that.
C1_DeclarationGated ==
    [][/\ \A sc \in ScopeIds, n \in ArgNames \ SysVars :
            ( /\ ~HasValue(scopes[sc], n)
              /\ HasValue(scopes'[sc], n)
              /\ n \notin DOMAIN DeclaredOf(declared_arguments_per_toolchain,
                                            ScopeSettings(sc)) )
            => ( /\ last'.op = "DeclareArgs"
                 /\ last'.scope = sc
                 /\ n \in DOMAIN last'.args )
       /\ last'.op = "SetupRootScope" =>
            \A n \in SysVars :
               /\ n \in DOMAIN last'.args =>
                     GetValue(scopes'[last'.scope], n) = last'.args[n]
               /\ (n \notin DOMAIN last'.args /\ n \in DOMAIN overrides') =>
                     GetValue(scopes'[last'.scope], n) = overrides'[n]
      ]_vars

\* C1 witness: SetupRootScope has run with "a" overridden globally and "b"
\* and current_os overridden for the toolchain; current_os shows its
\* override, "a" and "b" are not in the scope.
C1_Witness ==
    /\ last.op = "SetupRootScope"
    /\ "a" \in DOMAIN overrides
    /\ "b" \in DOMAIN last.args
    /\ kCurrentOs \in DOMAIN last.args
    /\ ~HasValue(scopes[last.scope], "a")
    /\ ~HasValue(scopes[last.scope], "b")
    /\ GetValue(scopes[last.scope], kCurrentOs) = last.args[kCurrentOs]

\* C2: after a successful DeclareArgs, every declared name that has both a
\* global override and an override stored for the scope's toolchain holds
\* the toolchain override in the scope.
C2_ToolchainOverrideWins ==
    (last.op = "DeclareArgs" /\ last.ret) =>
        \A n \in DOMAIN last.args :
            (n \in DOMAIN overrides /\ n \in DOMAIN LastToolchainOverrides)
            => GetValue(scopes[last.scope], n) = LastToolchainOverrides[n]

\* C2 witness: a successful DeclareArgs of a name whose global and
\* toolchain overrides differ.
C2_Witness ==
    /\ last.op = "DeclareArgs"
    /\ last.ret
    /\ \E n \in DOMAIN last.args :
          /\ n \in DOMAIN overrides
          /\ n \in DOMAIN LastToolchainOverrides
          /\ overrides[n] # LastToolchainOverrides[n]
          /\ last.args[n] # LastToolchainOverrides[n]

\* C3: after a successful DeclareArgs, a declared name without a toolchain
\* override holds the global override when there is one, and the default
\* passed in the call exactly when there is none.
C3_OverrideBeatsDefault ==
    (last.op = "DeclareArgs" /\ last.ret) =>
        \A n \in DOMAIN last.args :
            n \notin DOMAIN LastToolchainOverrides =>
               /\ n \in DOMAIN overrides =>
                     GetValue(scopes[last.scope], n) = overrides[n]
               /\ n \notin DOMAIN overrides =>
                     GetValue(scopes[last.scope], n) = last.args[n]
               /\ GetValue(scopes[last.scope], n) = last.args[n] =>
                     n \notin DOMAIN overrides

\* C3 witness: a successful DeclareArgs of two names, one globally
\* overridden and one not, neither overridden for the toolchain.
C3_Witness ==
    /\ last.op = "DeclareArgs"
    /\ last.ret
    /\ \E n, m \in DOMAIN last.args :
          /\ n \notin DOMAIN LastToolchainOverrides
          /\ m \notin DOMAIN LastToolchainOverrides
          /\ n \in DOMAIN overrides
          /\ m \notin DOMAIN overrides
          /\ GetValue(scopes[last.scope], n) = overrides[n]
          /\ GetValue(scopes[last.scope], m) = last.args[m]
\* The names declared for at least one toolchain.
DeclaredAnywhere(declared) ==
    {n \in ArgNames \cup SysVars :
        \E s \in DOMAIN declared : n \in DOMAIN declared[s]}

\* What VerifyAllOverridesUsed returns in the current state.
AuditPasses ==
    DOMAIN UnusedOverrides(declared_arguments_per_toolchain,
                           DOMAIN declared_arguments_per_toolchain,
                           all_overrides) = {}

\* C4: in every state the audit passes exactly when each name of
\* all_overrides is declared for at least one toolchain; a call of
\* VerifyAllOverridesUsed returns that, and when it returns false the name
\* it reports is in all_overrides and declared for no toolchain.
C4_AuditIffAllDeclared ==
    /\ AuditPasses <=>
          (DOMAIN all_overrides
              \subseteq DeclaredAnywhere(declared_arguments_per_toolchain))
    /\ last.op = "VerifyAllOverridesUsed" =>
          /\ last.ret <=>
                (DOMAIN all_overrides
                    \subseteq DeclaredAnywhere(declared_arguments_per_toolchain))
          /\ ~last.ret =>
                /\ last.name \in DOMAIN all_overrides
                /\ last.name \notin
                      DeclaredAnywhere(declared_arguments_per_toolchain)

\* C4 witness: the audit has failed naming "b" while another overridden
\* name is declared.
C4_Witness ==
    /\ last.op = "VerifyAllOverridesUsed"
    /\ ~last.ret
    /\ last.name = "b"
    /\ \E n \in DOMAIN all_overrides :
          n \in DeclaredAnywhere(declared_arguments_per_toolchain)

\* C5: AddDefaultArgOverrides never turns a passing audit into a failing
\* one, and while overrides were registered only through it the audit
\* passes, whatever is declared.
C5_DefaultOverridesNotAudited ==
    [][/\ last'.op = "AddDefaultArgOverrides" => (AuditPasses => AuditPasses')
       /\ (DOMAIN overrides' # {} /\ DOMAIN all_overrides' = {})
             => AuditPasses'
      ]_vars

\* C5 witness: after AddDefaultArgOverrides an override that is declared
\* nowhere is registered and the audit passes.
C5_Witness ==
    /\ last.op = "AddDefaultArgOverrides"
    /\ \E n \in DOMAIN overrides :
          n \notin DeclaredAnywhere(declared_arguments_per_toolchain)
    /\ declared_arguments_per_toolchain = [s \in {} |-> EmptyMap]
    /\ AuditPasses

\* C6: DeclareArgs returns false exactly when one of its names is already
\* declared for the scope's toolchain with another origin; it then writes
\* one Err titled "Duplicate build argument declaration." at the new
\* origin with a single sub-error at the recorded origin, and otherwise it
\* writes no Err. Declarations of other toolchains do not count.
C6_DuplicateByOrigin ==
    [][last'.op = "DeclareArgs" =>
         LET recorded == DeclaredOf(declared_arguments_per_toolchain,
                                    ScopeSettings(last'.scope))
             duplicates == {n \in DOMAIN last'.args :
                              /\ n \in DOMAIN recorded
                              /\ recorded[n].origin # last'.args[n].origin}
         IN  /\ last'.ret <=> (duplicates = {})
             /\ last'.ret => last'.err = NoErr
             /\ ~last'.ret =>
                   \E n \in duplicates :
                      /\ last'.err.origin = last'.args[n].origin
                      /\ last'.err.title = kDuplicateTitle
                      /\ Len(last'.err.sub) = 1
                      /\ last'.err.sub[1].origin = recorded[n].origin
      ]_vars

\* C6 witness: a DeclareArgs has been refused as a duplicate although the
\* same name is declared for another toolchain too.
C6_Witness ==
    /\ last.op = "DeclareArgs"
    /\ ~last.ret
    /\ last.err.title = kDuplicateTitle
    /\ \E n \in DOMAIN last.args, s \in DOMAIN declared_arguments_per_toolchain :
          /\ s # LastSettings
          /\ n \in DOMAIN declared_arguments_per_toolchain[s]
          /\ n \in DOMAIN declared_arguments_per_toolchain[LastSettings]
          /\ declared_arguments_per_toolchain[s][n].origin
                # declared_arguments_per_toolchain[LastSettings][n].origin
\* C7 as stated: every name of overrides is a name of all_overrides.
C7_OverridesSubsetAll == DOMAIN overrides \subseteq DOMAIN all_overrides

\* C7 amended: only AddDefaultArgOverrides adds to overrides a name that
\* all_overrides lacks; every other call leaves the set of such names as
\* it was or smaller, so without AddDefaultArgOverrides the names of
\* overrides are names of all_overrides.
C7_OnlyDefaultsUnrecorded ==
    [][last'.op # "AddDefaultArgOverrides" =>
          ((DOMAIN overrides') \ (DOMAIN all_overrides'))
             \subseteq ((DOMAIN overrides) \ (DOMAIN all_overrides))
      ]_vars

\* C7 witness: a name registered by AddArgOverride is in both maps while a
\* name registered as a default override is in overrides alone.
C7_Witness ==
    /\ last.op = "AddArgOverride"
    /\ last.name \in DOMAIN overrides
    /\ last.name \in DOMAIN all_overrides
    /\ \E n \in DOMAIN overrides : n \notin DOMAIN all_overrides

\* The order the specification gives the toolchains: defaults before
\* non-defaults, then ascending label.
SortsBefore(a, b) ==
    \/ Settings(a).is_default /\ ~Settings(b).is_default
    \/ /\ Settings(a).is_default = Settings(b).is_default
       /\ LabelLess(Settings(a).toolchain_label, Settings(b).toolchain_label)

\* The toolchains that declare a name, and those of them no other one
\* sorts before.
Declarers(name) ==
    {t \in DOMAIN declared_arguments_per_toolchain :
        name \in DOMAIN declared_arguments_per_toolchain[t]}

FirstDeclarers(name) ==
    LET declarers == Declarers(name)
    IN {t \in declarers : \A u \in declarers : ~SortsBefore(u, t)}

\* The answer C8 describes for a lookup of name.
IsResolved(found, value, name) ==
    IF name \in DOMAIN all_overrides
    THEN found /\ value = all_overrides[name]
    ELSE IF Declarers(name) = {}
    THEN ~found
    ELSE /\ found
         /\ \E t \in FirstDeclarers(name) :
               value = declared_arguments_per_toolchain[t][name]

\* C8: every call of GetArgFromAllArguments gives the all_overrides entry
\* of the name when there is one, else the value declared by the first
\* toolchain in sorted order that declares it, else nothing, whatever the
\* outcome of the sort; every call of GetArgOverride gives the
\* all_overrides entry or null.
C8_ResolutionOrder ==
    /\ last.op = "GetArgFromAllArguments" =>
          IsResolved(last.ret, last.value, last.name)
    /\ last.op = "GetArgOverride" =>
          /\ last.ret <=> last.name \in DOMAIN all_overrides
          /\ last.ret => last.value = all_overrides[last.name]

\* C8 witness: GetArgFromAllArguments was asked for a name that has no
\* override and that two labelled toolchains declare with different
\* defaults, and it answered.
C8_Witness ==
    /\ last.op = "GetArgFromAllArguments"
    /\ last.ret
    /\ last.name \notin DOMAIN all_overrides
    /\ \E t, u \in Declarers(last.name) :
          /\ SortsBefore(t, u)
          /\ ~Settings(t).is_default
          /\ declared_arguments_per_toolchain[t][last.name]
                # declared_arguments_per_toolchain[u][last.name]

\* C9: AddArgOverride and AddArgOverrides set the entries they are given
\* in both overrides and all_overrides and leave every other entry of
\* both as it was; AddDefaultArgOverrides does so in overrides and leaves
\* all_overrides alone; after the first two GetArgOverride and
\* GetArgFromAllArguments give the registered value; and a name enters
\* all_overrides only through them or as a toolchain override.
C9_Registration ==
    [][LET given == IF last'.op = "AddArgOverride"
                    THEN [n \in {last'.name} |-> last'.value]
                    ELSE last'.args
           Written(old, new) ==
               /\ DOMAIN new = (DOMAIN old) \cup (DOMAIN given)
               /\ \A n \in DOMAIN new :
                     new[n] = IF n \in DOMAIN given THEN given[n] ELSE old[n]
       IN
       /\ last'.op \in {"AddArgOverride", "AddArgOverrides"} =>
             /\ Written(overrides, overrides')
             /\ Written(all_overrides, all_overrides')
             /\ \A n \in DOMAIN given :
                   /\ GetArgOverride(all_overrides', n).found
                   /\ GetArgOverride(all_overrides', n).value = given[n]
                   /\ \A toolchains \in GetSortedToolchainsLocked(
                                           declared_arguments_per_toolchain') :
                         GetArgFromAllArguments(all_overrides',
                             declared_arguments_per_toolchain',
                             toolchains, n).value = given[n]
       /\ last'.op = "AddDefaultArgOverrides" =>
             /\ Written(overrides, overrides')
             /\ all_overrides' = all_overrides
       /\ \A n \in (DOMAIN all_overrides') \ (DOMAIN all_overrides) :
             /\ last'.op \in {"AddArgOverride", "AddArgOverrides",
                              "SetupRootScope"}
             /\ n \in DOMAIN given
      ]_vars

\* C9 witness: AddArgOverrides has registered two names, not as the first
\* call of the run, and both maps hold the values given.
C9_Witness ==
    /\ last.op = "AddArgOverrides"
    /\ nops > 1
    /\ Cardinality(DOMAIN last.args) = 2
    /\ \A n \in DOMAIN last.args :
          overrides[n] = last.args[n] /\ all_overrides[n] = last.args[n]

\* The view C10 describes.
IsAllArguments(result) ==
    /\ \A n \in ArgNames \cup SysVars :
          n \in DOMAIN result <=> Declarers(n) # {}
    /\ \A n \in DOMAIN result :
          /\ \E t \in FirstDeclarers(n) :
                result[n].default_value
                   = declared_arguments_per_toolchain[t][n]
          /\ result[n].has_override <=> n \in DOMAIN overrides
          /\ result[n].has_override =>
                result[n].override_value = overrides[n]

\* C10: what a call of GetAllArguments returns holds exactly the names
\* declared for some toolchain, each with the default of the first
\* toolchain in sorted order that declares it, and with has_override and
\* the global override's value exactly when overrides has the name,
\* whatever the outcome of the sort.
C10_AllArguments ==
    last.op = "GetAllArguments" => IsAllArguments(last.result)

\* C10 witness: GetAllArguments has answered while a default and a
\* labelled toolchain declare one name with different defaults.
C10_Witness ==
    /\ last.op = "GetAllArguments"
    /\ \E n \in DOMAIN last.result :
          \E t, u \in Declarers(n) :
             /\ Settings(t).is_default
             /\ ~Settings(u).is_default
             /\ declared_arguments_per_toolchain[t][n]
                   # declared_arguments_per_toolchain[u][n]
             /\ last.result[n].default_value
                   = declared_arguments_per_toolchain[t][n]

\* C11 as stated: for the overrides and declarations of any state, what
\* GetAllArguments returns and what GetArgFromAllArguments returns for
\* each name do not depend on which order the sort leaves the toolchains
\* in, several default Settings declaring one name included.
C11_SortDeterministic ==
    \A t1, t2 \in GetSortedToolchainsLocked(declared_arguments_per_toolchain) :
       /\ GetAllArguments(declared_arguments_per_toolchain, overrides, t1)
             = GetAllArguments(declared_arguments_per_toolchain, overrides, t2)
       /\ \A name \in ArgNames :
             GetArgFromAllArguments(all_overrides,
                 declared_arguments_per_toolchain, t1, name)
             = GetArgFromAllArguments(all_overrides,
                 declared_arguments_per_toolchain, t2, name)

\* A read call of thread t returns in this step.
ReaderReturns(t) ==
    /\ threads[t].pc # "idle"
    /\ threads[t].call.op \in ReaderOps
    /\ threads'[t].pc = "idle"

\* C12 as stated: what GetArgFromAllArguments(name) or GetAllArguments
\* returns while other threads call AddArgOverride, SetupRootScope and
\* DeclareArgs is what its definition gives for one state Args was in at
\* some instant of the call (for some outcome of the sort), nothing
\* taking effect between the override lookup and the declared-defaults
\* lookup.
C12_ConsistentSnapshot ==
    [][\A t \in Threads :
          ReaderReturns(t) =>
             \E snap \in threads[t].seen :
                \E toolchains \in SortOutcomes[DOMAIN snap.declared] :
                   IF threads[t].call.op = "GetArgFromAllArguments"
                   THEN GetArgFromAllArguments(snap.all_overrides,
                            snap.declared, toolchains, last'.name)
                        = [found |-> last'.ret, value |-> last'.value]
                   ELSE GetAllArguments(snap.declared, snap.overrides,
                                        toolchains)
                        = last'.result
      ]_vars

\* The threads that are, under the mutex, at a write of the given member.
MemberWriters(t, writer_pcs) ==
    {u \in Threads \ {t} : threads[u].pc \in writer_pcs}

\* C13 as stated: a thread that is about to read or write one of the four
\* maps holds the mutex, and no thread reads a map or an entry of it while
\* another thread is writing it - the override entry GetArgOverride handed
\* back and the copy constructor's source included.
C13_MutualExclusion ==
    \A t \in Threads :
       /\ threads[t].pc \notin {"idle", "lock_again"} => lock_ = t
       /\ threads[t].pc = "copy_override" =>
             EntryWriters(t, threads[t].call.name) = {}
       /\ threads[t].pc = "copy_all_overrides" =>
             MemberWriters(t, {"all_overrides", "SaveOverrideRecord"}) = {}
       /\ threads[t].pc = "copy_declared" =>
             MemberWriters(t, {"SetSystemVars", "declare"}) = {}
       /\ threads[t].pc = "copy_toolchain_overrides" =>
             MemberWriters(t, {"StoreToolchainOverrides"}) = {}

\* The calls that write to Args or to a scope.
MutatorOps ==
    {"AddArgOverride", "AddArgOverrides", "AddDefaultArgOverrides",
     "SetupRootScope", "DeclareArgs"}

\* C14: whenever no thread is inside a mutating call, the four maps and
\* every scope are what the mutating calls made so far give when each runs
\* alone from beginning to end, in the order in which they took the mutex;
\* and every DeclareArgs returns what it returns in that sequential run.
C14_Serializable ==
    [][/\ (\A t \in Threads : threads'[t].call.op \notin MutatorOps) =>
             ArgsState(overrides', all_overrides',
                       declared_arguments_per_toolchain',
                       toolchain_overrides', scopes') = serial'
       /\ \A t \in Threads :
             ( /\ threads[t].call.op = "DeclareArgs"
               /\ threads'[t].pc = "idle" )
             => /\ last'.ret = threads[t].expect.ret
                /\ last'.err = threads[t].expect.err
      ]_vars

\* C14 witness: no call is in progress; one evaluator has set up its root
\* scope with toolchain overrides, the other has declared "a" in its own
\* scope and got the override the front-end registered, and the state is
\* that of the sequential run.
C14_Witness ==
    /\ \A t \in Threads : threads[t].pc = "idle"
    /\ HasValue(scopes[3], kHostOs)
    /\ toolchain_overrides[3] # EmptyMap
    /\ "a" \in DOMAIN overrides
    /\ GetValue(scopes[4], "a") = overrides["a"]
    /\ ArgsState(overrides, all_overrides, declared_arguments_per_toolchain,
                 toolchain_overrides, scopes) = serial

\* Args and the scopes as they are now.
CurrentState ==
    ArgsState(overrides, all_overrides, declared_arguments_per_toolchain,
              toolchain_overrides, scopes)

\* DeclareArgs(args1, sc1) and DeclareArgs(args2, sc2), run from st in
\* either order, end in the same state and return the same.
Commute(st, args1, sc1, order1, args2, sc2, order2) ==
    LET first1 == SerialDeclareArgs(st, args1, sc1, order1)
        then2 == SerialDeclareArgs(first1.st, args2, sc2, order2)
        first2 == SerialDeclareArgs(st, args2, sc2, order2)
        then1 == SerialDeclareArgs(first2.st, args1, sc1, order1)
    IN  /\ then2.st = then1.st
        /\ first1.ret = then1.ret /\ first1.err = then1.err
        /\ first2.ret = then2.ret /\ first2.err = then2.err

\* C15: from every state that leaves room for two more calls, any two
\* DeclareArgs calls on scopes of different Settings give, in either
\* order, the same return values, the same four maps and the same
\* contents and used-marks of the scopes.
C15_CrossToolchainCommute ==
    nops + 2 <= MaxOps =>
       \A args1, args2 \in DeclMaps, sc1, sc2 \in ScopeIds :
          ScopeSettings(sc1) # ScopeSettings(sc2) =>
             \A order1 \in Orders(DOMAIN args1),
                order2 \in Orders(DOMAIN args2) :
                Commute(CurrentState, args1, sc1, order1, args2, sc2, order2)

\* C15 witness: two DeclareArgs calls have declared "a" with different
\* defaults through scopes of different Settings after an override of "b"
\* was registered, and the state is the one the other order gives too.
C15_Witness ==
    /\ last.op = "DeclareArgs"
    /\ last.ret
    /\ "b" \in DOMAIN overrides
    /\ \E sc \in ScopeIds, args \in DeclMaps :
          /\ ScopeSettings(sc) # LastSettings
          /\ HasValue(scopes[sc], "a")
          /\ HasValue(scopes[last.scope], "a")
          /\ GetValue(scopes[sc], "a") # GetValue(scopes[last.scope], "a")
          /\ \E order1 \in Orders(DOMAIN last.args),
                order2 \in Orders(DOMAIN args) :
                LET before == [CurrentState EXCEPT
                                  !.declared = [s \in {} |-> EmptyMap],
                                  !.toolchain_overrides = [s \in {} |-> EmptyMap],
                                  !.scopes = [c \in ScopeIds |-> NewScope]]
                    first1 == SerialDeclareArgs(before, last.args, last.scope,
                                                order1)
                    then2 == SerialDeclareArgs(first1.st, args, sc, order2)
                IN  then2.st = CurrentState

\* C16: right after SetupRootScope(dest, tc) the six system variables are
\* in dest, recorded as declared for dest's Settings and marked used in
\* dest, and each of current_os, target_os, current_cpu and target_cpu that
\* has neither a global override nor an entry in tc holds the empty string.
C16_SystemVarsSeeded ==
    last.op = "SetupRootScope" =>
       /\ \A n \in SysVars :
             /\ HasValue(scopes[last.scope], n)
             /\ n \in DOMAIN DeclaredOf(declared_arguments_per_toolchain,
                                        LastSettings)
             /\ n \in scopes[last.scope].used
       /\ \A n \in {kCurrentOs, kTargetOs, kCurrentCpu, kTargetCpu} :
             (n \notin DOMAIN overrides /\ n \notin DOMAIN last.args) =>
                GetValue(scopes[last.scope], n) = Value(nullptr, "")

\* C16 witness: SetupRootScope has run with a toolchain override of
\* current_os and no override of target_os: target_os holds the empty
\* string, current_os its override, host_os the host's OS, and all six are
\* marked used and declared.
C16_Witness ==
    /\ last.op = "SetupRootScope"
    /\ kCurrentOs \in DOMAIN last.args
    /\ kTargetOs \notin DOMAIN overrides
    /\ kTargetOs \notin DOMAIN last.args
    /\ GetValue(scopes[last.scope], kTargetOs) = Value(nullptr, "")
    /\ GetValue(scopes[last.scope], kCurrentOs) = last.args[kCurrentOs]
    /\ GetValue(scopes[last.scope], kHostOs) = Value(nullptr, HostOs)
    /\ SysVars \subseteq scopes[last.scope].used
    /\ SysVars \subseteq DOMAIN declared_arguments_per_toolchain[LastSettings]

\* C17: right after SetupRootScope, a system variable that has both a
\* global override and an entry in the toolchain_overrides argument holds
\* the toolchain override's value in the scope.
C17_ToolchainOverrideAppliedLast ==
    last.op = "SetupRootScope" =>
       \A n \in SysVars :
          (n \in DOMAIN overrides /\ n \in DOMAIN last.args) =>
             GetValue(scopes[last.scope], n) = last.args[n]

\* C17 witness: SetupRootScope has run with current_os overridden both
\* globally and for the toolchain, with different values.
C17_Witness ==
    /\ last.op = "SetupRootScope"
    /\ kCurrentOs \in DOMAIN overrides
    /\ kCurrentOs \in DOMAIN last.args
    /\ overrides[kCurrentOs] # last.args[kCurrentOs]
    /\ GetValue(scopes[last.scope], kCurrentOs) = last.args[kCurrentOs]

\* C18: right after SetupRootScope its toolchain_overrides argument is
\* stored under the scope's Settings and GetArgOverride returns each of
\* its entries; in every state each stored toolchain override is a name of
\* all_overrides, and one declared in no toolchain makes the audit fail;
\* and a call of VerifyAllOverridesUsed returns true only when every
\* stored toolchain override is declared somewhere.
C18_ToolchainOverridesAudited ==
    /\ last.op = "SetupRootScope" =>
          /\ OverridesOf(toolchain_overrides, LastSettings) = last.args
          /\ \A n \in DOMAIN last.args :
                GetArgOverride(all_overrides, n)
                   = [found |-> TRUE, value |-> last.args[n]]
    /\ \A s \in DOMAIN toolchain_overrides :
          \A n \in DOMAIN toolchain_overrides[s] :
             /\ n \in DOMAIN all_overrides
             /\ n \notin DeclaredAnywhere(declared_arguments_per_toolchain)
                   => ~AuditPasses
             /\ (last.op = "VerifyAllOverridesUsed" /\ last.ret)
                   => n \in DeclaredAnywhere(declared_arguments_per_toolchain)

\* C18 witness: the audit has failed on "b", which is registered only as a
\* toolchain override and declared nowhere.
C18_Witness ==
    /\ last.op = "VerifyAllOverridesUsed"
    /\ ~last.ret
    /\ last.name = "b"
    /\ "b" \notin DOMAIN overrides
    /\ \E s \in DOMAIN toolchain_overrides : "b" \in DOMAIN toolchain_overrides[s]
    /\ "b" \notin DeclaredAnywhere(declared_arguments_per_toolchain)

\* C19: after a successful DeclareArgs(args, scope) every name of args is
\* marked used in scope, whether its value came from the toolchain
\* override, the global override or the declared default.
C19_DeclaredMarkedUsed ==
    (last.op = "DeclareArgs" /\ last.ret) =>
       \A n \in DOMAIN last.args :
          /\ HasValue(scopes[last.scope], n)
          /\ n \in scopes[last.scope].used

\* C19 witness: a successful DeclareArgs of two names, one taking the
\* global override and one the declared default, both marked used.
C19_Witness ==
    /\ last.op = "DeclareArgs"
    /\ last.ret
    /\ \E n, m \in DOMAIN last.args :
          /\ n \notin DOMAIN LastToolchainOverrides
          /\ n \in DOMAIN overrides
          /\ GetValue(scopes[last.scope], n) = overrides[n]
          /\ m \notin DOMAIN overrides
          /\ GetValue(scopes[last.scope], m) = last.args[m]
          /\ {n, m} \subseteq scopes[last.scope].used

\* C20 as stated: whenever DeclareArgs or VerifyAllOverridesUsed returns
\* false, the Err written has a non-null origin and so has every sub-error
\* of it.
C20_ErrOriginNonNull ==
    (last.op \in {"DeclareArgs", "VerifyAllOverridesUsed"} /\ ~last.ret) =>
       /\ last.err.origin # nullptr
       /\ \A i \in 1..Len(last.err.sub) : last.err.sub[i].origin # nullptr

\* The names recorded as declared for a Settings.
DeclaredNames(declared, s) == DOMAIN DeclaredOf(declared, s)

\* The names the call just made passed to DeclareArgs through a scope owned
\* by s.
PassedToDeclareArgs(call, s) ==
    IF call.op = "DeclareArgs" /\ ScopeSettings(call.scope) = s
    THEN DOMAIN call.args ELSE {}

\* C21 as stated: for every Settings s the names of declared_per_toolchain[s]
\* are the union of the names passed to DeclareArgs through scopes owned by
\* s; both start empty, so every call adds to the declared names exactly
\* the names it passed to DeclareArgs for s.
C21_DeclaredIsUnionOfDeclareArgs ==
    [][\A s \in SettingsIds :
          DeclaredNames(declared_arguments_per_toolchain', s)
             = DeclaredNames(declared_arguments_per_toolchain, s)
                  \cup PassedToDeclareArgs(last', s)
      ]_vars

\* C21 amended: a name never leaves declared_per_toolchain[s]; a name enters
\* it only as one of the six system variables, by SetupRootScope on a scope
\* owned by s, or as a name passed to DeclareArgs through a scope owned by
\* s; SetupRootScope records all six system variables; a DeclareArgs that
\* returns true records every name it was passed, and one that returns
\* false was passed a name recorded before the call with another origin.
C21_DeclaredNames ==
    [][\A s \in SettingsIds :
          LET old == DeclaredNames(declared_arguments_per_toolchain, s)
              new == DeclaredNames(declared_arguments_per_toolchain', s)
              mine == last'.op \in {"SetupRootScope", "DeclareArgs"}
                         /\ ScopeSettings(last'.scope) = s
          IN  /\ old \subseteq new
              /\ new \ old \subseteq
                    (IF mine /\ last'.op = "SetupRootScope" THEN SysVars
                     ELSE PassedToDeclareArgs(last', s))
              /\ (mine /\ last'.op = "SetupRootScope") => SysVars \subseteq new
              /\ (mine /\ last'.op = "DeclareArgs" /\ last'.ret) =>
                    DOMAIN last'.args \subseteq new
              /\ (mine /\ last'.op = "DeclareArgs" /\ ~last'.ret) =>
                    \E n \in (DOMAIN last'.args) \cap old :
                       declared_arguments_per_toolchain[s][n].origin
                          # last'.args[n].origin
      ]_vars

\* C21 witness: a DeclareArgs passed "a" and "b" and was refused on "a";
\* the Settings has the six system variables and "a" recorded, not "b".
C21_Witness ==
    /\ last.op = "DeclareArgs"
    /\ ~last.ret
    /\ DOMAIN last.args = {"a", "b"}
    /\ DeclaredNames(declared_arguments_per_toolchain, LastSettings)
          = SysVars \cup {"a"}

\* The overrides the audit has nothing declared for.
UnusedNames ==
    (DOMAIN all_overrides) \ DeclaredAnywhere(declared_arguments_per_toolchain)

\* C22: a call of VerifyAllOverridesUsed that returns true writes no Err;
\* one that returns false writes a single Err without sub-errors, titled
\* "Build argument has no effect.", for one override that is in
\* all_overrides and declared for no toolchain, anchored at the origin of
\* that override, however many overrides are unused.
C22_AuditErrorShape ==
    last.op = "VerifyAllOverridesUsed" =>
       /\ last.ret => last.err = NoErr
       /\ ~last.ret =>
             /\ last.name \in UnusedNames
             /\ last.err.title = kNoEffectTitle
             /\ last.err.origin = all_overrides[last.name].origin
             /\ last.err.sub = <<>>

\* C22 witness: the audit has failed while several overrides with different
\* origins are unused, and it reported one of them.
C22_Witness ==
    /\ last.op = "VerifyAllOverridesUsed"
    /\ ~last.ret
    /\ last.name \in UnusedNames
    /\ \E n \in UnusedNames :
          /\ n # last.name
          /\ all_overrides[n].origin # all_overrides[last.name].origin

\* No root scope has been set up yet: all_overrides holds the command-line
\* overrides and nothing else.
NoRootScopeYet ==
    \A s \in SettingsIds :
       kHostOs \notin DeclaredNames(declared_arguments_per_toolchain, s)

\* The global override in effect for a name: what DeclareArgs writes for it
\* in a scope whose toolchain does not override it, and what
\* GetAllArguments reports as its override_value.
GlobalInEffect(ovr, name) ==
    [written |-> EffectiveValue(name, NullValue, EmptyMap, ovr),
     reported |-> MergeOverrides(
                      [n \in {name} |-> ValueWithOverride(NullValue)],
                      ovr)[name].override_value]

\* C23 as stated: of a default override (AddDefaultArgOverrides) and a
\* command-line override (AddArgOverride, AddArgOverrides) of one name, the
\* command-line value is the one in effect whichever was registered first:
\* registering a default override of a name that has a command-line
\* override leaves the command-line value in effect, registering a
\* command-line override puts its value in effect; and a DeclareArgs
\* writes the toolchain's override of a name over both.
C23_CommandLineBeatsDefault ==
    [][/\ (last'.op = "AddDefaultArgOverrides" /\ NoRootScopeYet) =>
             \A n \in (DOMAIN last'.args) \cap (DOMAIN all_overrides) :
                /\ GlobalInEffect(overrides', n).written = all_overrides[n]
                /\ GlobalInEffect(overrides', n).reported = all_overrides[n]
       /\ last'.op \in {"AddArgOverride", "AddArgOverrides"} =>
             \A n \in DOMAIN Given(last') :
                /\ GlobalInEffect(overrides', n).written = Given(last')[n]
                /\ GlobalInEffect(overrides', n).reported = Given(last')[n]
       /\ (last'.op = "DeclareArgs" /\ last'.ret) =>
             \A n \in DOMAIN last'.args :
                n \in DOMAIN OverridesOf(toolchain_overrides,
                                         ScopeSettings(last'.scope))
                => GetValue(scopes'[last'.scope], n)
                      = toolchain_overrides[ScopeSettings(last'.scope)][n]
      ]_vars

\* ---------------------------------------------------------------- host CPU

\* What OperatingSystemArchitecture() can report: every string the
\* derivation names, strings that begin with "arm", and strings it does not
\* handle (too short for the prefix test, empty, near misses).
AllHostArchs ==
    {<<"x", "8", "6">>, <<"B", "e", "P", "C">>,
     <<"x", "8", "6", "_", "6", "4">>, <<"a", "a", "r", "c", "h", "6", "4">>,
     <<"a", "r", "m", "6", "4">>, <<"a", "r", "m">>,
     <<"a", "r", "m", "v", "7", "l">>, <<"a", "r", "m", "6", "4", "e">>,
     <<"a", "r">>, <<>>, <<"m", "i", "p", "s">>,
     <<"m", "i", "p", "s", "6", "4">>,
     <<"m", "i", "p", "s", "6", "4", "e", "l">>, <<"s", "3", "9", "0", "x">>,
     <<"p", "p", "c", "6", "4">>, <<"p", "p", "c", "6", "4", "l", "e">>,
     <<"p", "p", "c">>, <<"r", "i", "s", "c", "v", "3", "2">>,
     <<"r", "i", "s", "c", "v", "6", "4">>, <<"e", "2", "k">>,
     <<"l", "o", "o", "n", "g", "a", "r", "c", "h", "6", "4">>,
     <<"i", "6", "8", "6">>,
     <<"a", "a", "r", "c", "h", "6", "4", "_", "b", "e">>}

\* A run on a host of any of these architectures.
InitHost ==
    /\ overrides = EmptyMap
    /\ all_overrides = EmptyMap
    /\ declared_arguments_per_toolchain = [s \in {} |-> EmptyMap]
    /\ toolchain_overrides = [s \in {} |-> EmptyMap]
    /\ scopes = [sc \in ScopeIds |-> NewScope]
    /\ os_arch \in AllHostArchs
    /\ last = Call("Args", 0, "", EmptyMap, TRUE, NoErr, NullValue, NoResult)
    /\ nops = 0
    /\ lock_ = 0
    /\ threads = [t \in Threads |-> Idle]
    /\ serial = ArgsState(EmptyMap, EmptyMap, [s \in {} |-> EmptyMap],
                          [s \in {} |-> EmptyMap],
                          [sc \in ScopeIds |-> NewScope])

\* SetupRootScope on a host whose architecture is not handled: CHECK(false)
\* in SetSystemVarsLocked ends the process before anything is written, and
\* no further call is made in the run.
SetupRootScopeCheckFailed(dest, tc_overrides) ==
    /\ nops < MaxOps
    /\ HostCpu(os_arch) = "fatal"
    /\ last' = Call("CHECK(false)", dest, "", tc_overrides, FALSE, NoErr,
                    NullValue, NoResult)
    /\ nops' = MaxOps
    /\ UNCHANGED mt_vars
    /\ UNCHANGED <<args_vars, scopes, os_arch>>

\* Root scopes set up on any host, with host_cpu overridden on the command
\* line or not.
NextHost ==
    \/ \E value \in OverrideValues : AddArgOverride(kHostCpu, value)
    \/ \E dest \in {1, 3} :
          \E tc_overrides \in ToolchainArgs(ScopeSettings(dest)) :
             SetupRootScope(dest, tc_overrides)
    \/ \E dest \in {1, 3} :
          \E tc_overrides \in ToolchainArgs(ScopeSettings(dest)) :
             SetupRootScopeCheckFailed(dest, tc_overrides)

SpecHost == InitHost /\ [][NextHost]_vars

\* The closed list of host_cpu values.
HostCpuValues ==
    {"x86", "x64", "arm", "arm64", "mipsel", "mips64el", "s390x", "ppc64",
     "riscv32", "riscv64", "e2k", "loong64"}

\* The derivation table: architecture string, host_cpu.
HostCpuTable ==
    {<<<<"x", "8", "6">>, "x86">>,
     <<<<"B", "e", "P", "C">>, "x86">>,
     <<<<"x", "8", "6", "_", "6", "4">>, "x64">>,
     <<<<"a", "a", "r", "c", "h", "6", "4">>, "arm64">>,
     <<<<"a", "r", "m", "6", "4">>, "arm64">>,
     <<<<"m", "i", "p", "s">>, "mipsel">>,
     <<<<"m", "i", "p", "s", "6", "4">>, "mips64el">>,
     <<<<"p", "p", "c", "6", "4">>, "ppc64">>,
     <<<<"p", "p", "c", "6", "4", "l", "e">>, "ppc64">>,
     <<<<"l", "o", "o", "n", "g", "a", "r", "c", "h", "6", "4">>, "loong64">>,
     <<<<"s", "3", "9", "0", "x">>, "s390x">>,
     <<<<"r", "i", "s", "c", "v", "3", "2">>, "riscv32">>,
     <<<<"r", "i", "s", "c", "v", "6", "4">>, "riscv64">>,
     <<<<"e", "2", "k">>, "e2k">>}

\* The string begins with "arm".
BeginsWithArm(arch) ==
    /\ Len(arch) >= 3
    /\ arch[1] = "a" /\ arch[2] = "r" /\ arch[3] = "m"

\* The architecture strings the derivation handles.
Handled(arch) ==
    \/ \E row \in HostCpuTable : row[1] = arch
    \/ BeginsWithArm(arch)

\* C24: a root scope is set up exactly on a host whose architecture string
\* is handled; the host_cpu recorded as declared is then one of the closed
\* list: the table's entry for the string, "arm64" for "aarch64" and
\* "arm64", "arm" for every other string that begins with "arm"; the scope
\* holds that value unless host_cpu is overridden; on any other string the
\* set-up is fatal and no scope and no declaration has been written.
C24_HostCpuDerivation ==
    /\ last.op = "SetupRootScope" =>
          LET host_cpu ==
                 declared_arguments_per_toolchain[LastSettings][kHostCpu]
          IN  /\ Handled(os_arch)
              /\ host_cpu.val \in HostCpuValues
              /\ host_cpu.origin = nullptr
              /\ \A row \in HostCpuTable :
                    row[1] = os_arch => host_cpu.val = row[2]
              /\ ( /\ BeginsWithArm(os_arch)
                   /\ os_arch # <<"a", "r", "m", "6", "4">> )
                 => host_cpu.val = "arm"
              /\ (kHostCpu \notin DOMAIN overrides
                     /\ kHostCpu \notin DOMAIN last.args)
                 => GetValue(scopes[last.scope], kHostCpu) = host_cpu
    /\ last.op = "CHECK(false)" =>
          /\ ~Handled(os_arch)
          /\ scopes = [sc \in ScopeIds |-> NewScope]
          /\ declared_arguments_per_toolchain = [s \in {} |-> EmptyMap]
          /\ toolchain_overrides = [s \in {} |-> EmptyMap]

\* C24 witness: a root scope has been set up on a host that reports a
\* string beginning with "arm" that is longer than "arm" and is not
\* "arm64", and host_cpu is "arm".
C24_Witness ==
    /\ last.op = "SetupRootScope"
    /\ BeginsWithArm(os_arch)
    /\ Len(os_arch) > 3
    /\ os_arch # <<"a", "r", "m", "6", "4">>
    /\ GetValue(scopes[last.scope], kHostCpu) = Value(nullptr, "arm")

\* ---------------------------------------------------------------- JSONValueConverter

\* base::Value of each type the converter tells apart.
JValue(type, i, s, list, dict) ==
    [type |-> type, i |-> i, s |-> s, list |-> list, dict |-> dict]

JInteger(i) == JValue("integer", i, "", <<>>, <<>>)
JString(s) == JValue("string", 0, s, <<>>, <<>>)
JList(elements) == JValue("list", 0, "", elements, <<>>)
JDictionary(dict) == JValue("dictionary", 0, "", <<>>, dict)

\* One registered field: its path, the kind of its converter and, for a
\* nested message, the fields the nested type registers.
FieldConverter(path, kind, nested) ==
    [path |-> path, kind |-> kind, fields |-> nested]

\* struct Nested { int id; } and struct Message { int foo; std::string bar;
\* std::vector<int> ints; Nested child; }, with the fields each registers
\* in RegisterJSONConverter, in registration order.
NestedFields == <<FieldConverter("id", "int", <<>>)>>

MessageFields ==
    <<FieldConverter("foo", "int", <<>>),
      FieldConverter("bar", "string", <<>>),
      FieldConverter("ints", "repeated_int", <<>>),
      FieldConverter("child", "nested", NestedFields)>>

\* A Message as its constructor leaves it, and one that already holds data.
Messages ==
    {[foo |-> 0, bar |-> "", ints |-> <<>>, child |-> [id |-> 0]],
     [foo |-> 1, bar |-> "old", ints |-> <<4>>, child |-> [id |-> 2]]}

\* The loop of RepeatedValueConverter<int>::Convert from element i on:
\* every element converted is pushed onto the field; the first element
\* that is not an integer ends the conversion.
RECURSIVE RepeatedValueConvert(_, _, _)
RepeatedValueConvert(list, field, i) ==
    IF i > Len(list) THEN [ret |-> TRUE, field |-> field]
    ELSE IF list[i].type = "integer"
         THEN RepeatedValueConvert(list, Append(field, list[i].i), i + 1)
         ELSE [ret |-> FALSE, field |-> field]

RECURSIVE Convert(_, _, _)
RECURSIVE ConvertField(_, _, _)
RECURSIVE ConvertLoop(_, _, _, _)
RECURSIVE ConvertLoop_MissingFails(_, _, _, _)

\* FieldConverter::ConvertField: the value converter of the field's kind
\* run on the field of dst.
ConvertField(converter, value, dst) ==
    CASE converter.kind = "int" ->
           IF value.type = "integer"
           THEN [ret |-> TRUE,
                 output |-> [dst EXCEPT ![converter.path] = value.i]]
           ELSE [ret |-> FALSE, output |-> dst]
      [] converter.kind = "string" ->
           IF value.type = "string"
           THEN [ret |-> TRUE,
                 output |-> [dst EXCEPT ![converter.path] = value.s]]
           ELSE [ret |-> FALSE, output |-> dst]
      [] converter.kind = "repeated_int" ->
           IF value.type # "list"
           THEN [ret |-> FALSE, output |-> dst]
           ELSE LET out == RepeatedValueConvert(value.list,
                                                dst[converter.path], 1)
                IN [ret |-> out.ret,
                    output |-> [dst EXCEPT ![converter.path] = out.field]]
      [] converter.kind = "nested" ->
           LET out == Convert(converter.fields, value, dst[converter.path])
           IN [ret |-> out.ret,
               output |-> [dst EXCEPT ![converter.path] = out.output]]

\* The loop of Convert failing on a registered field the dictionary lacks.
ConvertLoop_MissingFails(fields_, dictionary_value, output, i) ==
    IF i > Len(fields_) THEN [ret |-> TRUE, output |-> output]
    ELSE IF fields_[i].path \in DOMAIN dictionary_value
    THEN LET out == ConvertField(fields_[i],
                                 dictionary_value[fields_[i].path], output)
         IN IF ~out.ret THEN [ret |-> FALSE, output |-> out.output]
            ELSE ConvertLoop_MissingFails(fields_, dictionary_value,
                                          out.output, i + 1)
    ELSE [ret |-> FALSE, output |-> output]

\* The loop of JSONValueConverter::Convert over fields_ from index i on.
ConvertLoop(fields_, dictionary_value, output, i) ==
    IF i > Len(fields_) THEN [ret |-> TRUE, output |-> output]
    ELSE IF fields_[i].path \in DOMAIN dictionary_value
    THEN LET out == ConvertField(fields_[i],
                                 dictionary_value[fields_[i].path], output)
         IN IF ~out.ret THEN [ret |-> FALSE, output |-> out.output]
            ELSE ConvertLoop(fields_, dictionary_value, out.output, i + 1)
    ELSE ConvertLoop(fields_, dictionary_value, output, i + 1)

\* JSONValueConverter::Convert.
Convert(fields_, value, output) ==
    IF value.type # "dictionary" THEN [ret |-> FALSE, output |-> output]
    ELSE ConvertLoop(fields_, value.dict, output, 1)

\* The keys a JSON dictionary handed to the converter can have: the four
\* registered ones and one that is not registered.
JsonKeys == {"foo", "bar", "ints", "child", "other"}

\* JSON inputs: values that are no dictionary, and dictionaries that have
\* any of the keys, each with a value its field converts or does not.
JsonInputs ==
    {JInteger(1), JString("s"), JList(<<>>)}
    \cup
    {JDictionary([k \in keys |->
                     CASE k = "foo" -> foo [] k = "bar" -> bar
                       [] k = "ints" -> ints [] k = "child" -> child
                       [] k = "other" -> JInteger(9)]) :
        keys \in SUBSET JsonKeys,
        foo \in {JInteger(7), JString("x")},
        bar \in {JString("s"), JInteger(1)},
        ints \in {JList(<<JInteger(1), JInteger(2)>>),
                  JList(<<JInteger(1), JString("x")>>), JInteger(3)},
        child \in {JDictionary([k \in {"id"} |-> JInteger(5)]),
                   JDictionary([k \in {"id"} |-> JString("x")]),
                   JInteger(1)}}

\* converter.Convert(value, &message) on a JSONValueConverter<Message>.
CallConvert(value, output) ==
    /\ nops < MaxOps
    /\ LET out == Convert(MessageFields, value, output)
       IN last' = Call("Convert", 0, "", output, out.ret, NoErr, value,
                       out.output)
    /\ nops' = nops + 1
    /\ UNCHANGED mt_vars
    /\ UNCHANGED <<args_vars, scopes, os_arch>>

NextJson == \E value \in JsonInputs, output \in Messages : CallConvert(value, output)

SpecJson == Init /\ [][NextJson]_vars

\* The registered fields, by index, that the dictionary of the call just
\* made has, and those of them whose value does not convert.
PresentFields ==
    IF last.value.type # "dictionary" THEN {}
    ELSE {i \in 1..Len(MessageFields) :
             MessageFields[i].path \in DOMAIN last.value.dict}

FailingFields ==
    {i \in PresentFields :
        ~ConvertField(MessageFields[i], last.value.dict[MessageFields[i].path],
                      last.args).ret}

\* C25: Convert returns false exactly when its input is no dictionary or a
\* registered field that the dictionary has does not convert, a missing
\* registered field making no difference; when it returns true every
\* registered field the dictionary has is converted and every other one is
\* as it was; when it returns false on a field, the registered fields before
\* it that the dictionary has are converted in the output, and those after
\* it and the missing ones are as they were.
C25_ConvertFailure ==
    last.op = "Convert" =>
       LET Path(i) == MessageFields[i].path
           Converted(i) ==
               last.result[Path(i)]
                  = ConvertField(MessageFields[i], last.value.dict[Path(i)],
                                 last.args).output[Path(i)]
           Untouched(i) == last.result[Path(i)] = last.args[Path(i)]
       IN  /\ ~last.ret <=>
                 (last.value.type # "dictionary" \/ FailingFields # {})
           /\ last.value.type # "dictionary" => last.result = last.args
           /\ \A i \in 1..Len(MessageFields) :
                 /\ i \notin PresentFields => Untouched(i)
                 /\ (i \in PresentFields
                       /\ \A k \in FailingFields : i < k) => Converted(i)
                 /\ (\E k \in FailingFields : k < i) => Untouched(i)

\* C25 witness: Convert has returned false on its third field, for a
\* dictionary that lacks the second; the first is converted in the output
\* and the fourth, which the dictionary has, is as it was.
C25_Witness ==
    /\ last.op = "Convert"
    /\ ~last.ret
    /\ PresentFields = {1, 3, 4}
    /\ FailingFields = {3}
    /\ last.result.foo = last.value.dict["foo"].i
    /\ last.result.foo # last.args.foo
    /\ last.result.bar = last.args.bar
    /\ last.result.child = last.args.child
    /\ last.result.child
          # ConvertField(MessageFields[4], last.value.dict["child"],
                         last.args).output.child

\* What a scope shows of a name: whether it is there, its value, and
\* whether it is marked used.
ScopeEntry(scope, name) ==
    [has |-> HasValue(scope, name), value |-> GetValue(scope, name),
     used |-> name \in scope.used]

\* C26: when DeclareArgs returns false, one of its names N was recorded for
\* the scope's Settings with another origin; the record of N and what the
\* scope shows of N are as before the call; the other names of the call
\* split into those processed before N, which are recorded (as they were,
\* or with the value passed if new) and written and marked used in the
\* scope, and those not reached, whose record and scope entry are as
\* before the call.
C26_FailedDeclareArgs ==
    [][(last'.op = "DeclareArgs" /\ ~last'.ret) =>
         LET s == ScopeSettings(last'.scope)
             args == last'.args
             old == DeclaredOf(declared_arguments_per_toolchain, s)
             new == DeclaredOf(declared_arguments_per_toolchain', s)
             Same(n) ==
                /\ n \in DOMAIN new <=> n \in DOMAIN old
                /\ n \in DOMAIN old => new[n] = old[n]
                /\ ScopeEntry(scopes'[last'.scope], n)
                      = ScopeEntry(scopes[last'.scope], n)
             Done(n) ==
                /\ n \in DOMAIN new
                /\ new[n] = IF n \in DOMAIN old THEN old[n] ELSE args[n]
                /\ ScopeEntry(scopes'[last'.scope], n)
                      = [has |-> TRUE,
                         value |-> EffectiveValue(n, args[n],
                                      OverridesOf(toolchain_overrides, s),
                                      overrides),
                         used |-> TRUE]
         IN  \E N \in DOMAIN args :
                /\ N \in DOMAIN old
                /\ old[N].origin # args[N].origin
                /\ Same(N)
                /\ \E before \in SUBSET ((DOMAIN args) \ {N}) :
                      /\ \A n \in before : Done(n)
                      /\ \A n \in (DOMAIN args) \ (before \cup {N}) : Same(n)
      ]_vars

\* C26 witness: DeclareArgs of "a" and "b" was refused on "a", recorded at
\* another origin, after it had recorded and written "b".
C26_Witness ==
    /\ last.op = "DeclareArgs"
    /\ ~last.ret
    /\ DOMAIN last.args = {"a", "b"}
    /\ declared_arguments_per_toolchain[LastSettings]["a"].origin
          # last.args["a"].origin
    /\ "b" \in DOMAIN declared_arguments_per_toolchain[LastSettings]
    /\ declared_arguments_per_toolchain[LastSettings]["b"] = last.args["b"]
    /\ ScopeEntry(scopes[last.scope], "b").used
    /\ GetValue(scopes[last.scope], "a") # last.args["a"]

\* C27 as stated: a name recorded in declared_per_toolchain[s] keeps its
\* recorded origin and default value through every later DeclareArgs and
\* SetupRootScope, and a DeclareArgs that returns true passed each name
\* that was already recorded with the recorded origin.
C27_StableDeclaration ==
    [][/\ \A s \in DOMAIN declared_arguments_per_toolchain :
             \A n \in DOMAIN declared_arguments_per_toolchain[s] :
                /\ n \in DeclaredNames(declared_arguments_per_toolchain', s)
                /\ declared_arguments_per_toolchain'[s][n]
                      = declared_arguments_per_toolchain[s][n]
       /\ (last'.op = "DeclareArgs" /\ last'.ret) =>
             LET old == DeclaredOf(declared_arguments_per_toolchain,
                                   ScopeSettings(last'.scope))
             IN \A n \in (DOMAIN last'.args) \cap (DOMAIN old) :
                   last'.args[n].origin = old[n].origin
      ]_vars

\* C28 as stated: whatever calls were made before, through this scope's
\* Settings or another, SetupRootScope on a scope nothing has been written
\* to leaves exactly the six system variables in it: no override of any
\* other name is written.
C28_OnlySystemVarsSeeded ==
    [][(last'.op = "SetupRootScope" /\ scopes[last'.scope] = NewScope) =>
          DOMAIN scopes'[last'.scope].values = SysVars
      ]_vars

\* The calls that can add to all_overrides.
RegistersOverrides(call) ==
    \/ call.op \in {"AddArgOverride", "AddArgOverrides"}
    \/ call.op = "SetupRootScope" /\ call.args # EmptyMap

\* C29: a call of VerifyAllOverridesUsed returns whether the audit passes in
\* the state it is made in; an audit that passes still passes after every
\* call other than AddArgOverride, AddArgOverrides and a SetupRootScope
\* with toolchain overrides; and while no call registers overrides or
\* declares (no SetupRootScope, no DeclareArgs) the result stays what it is,
\* true or false.
C29_AuditMonotone ==
    [][/\ last'.op = "VerifyAllOverridesUsed" => (last'.ret <=> AuditPasses)
       /\ (AuditPasses /\ ~RegistersOverrides(last')) => AuditPasses'
       /\ (~RegistersOverrides(last')
             /\ last'.op \notin {"SetupRootScope", "DeclareArgs"})
          => (AuditPasses' <=> AuditPasses)
      ]_vars

\* C29 witness: an override was registered and then DeclareArgs declared
\* it: the audit failed before the declaration and passes after it.
C29_Witness ==
    /\ nops = 2
    /\ last.op = "DeclareArgs"
    /\ last.ret
    /\ DOMAIN all_overrides # {}
    /\ \E n \in DOMAIN all_overrides :
          /\ n \in DOMAIN last.args
          /\ Declarers(n) = {LastSettings}
    /\ AuditPasses

\* The names overridden through AddDefaultArgOverrides and through nothing
\* else: in overrides, not in all_overrides.
DefaultOnlyOverrides == (DOMAIN overrides) \ (DOMAIN all_overrides)

HoldingAnother(scs, name, value) ==
    {sc \in ScopeIds : HasValue(scs[sc], name) /\ GetValue(scs[sc], name) # value}

\* C31: AddArgOverride and AddArgOverrides write into no scope, so a scope
\* that held N with another value before the call still holds that value
\* after it; each name they register that is declared for some toolchain is
\* not among the overrides the audit finds unused after the call; and a
\* call of VerifyAllOverridesUsed that fails never names a declared
\* override, however late it was registered.
C31_NoRetroactiveOverride ==
    [][/\ last'.op \in {"AddArgOverride", "AddArgOverrides"} =>
             /\ scopes' = scopes
             /\ \A n \in DOMAIN Given(last') :
                   /\ overrides'[n] = Given(last')[n]
                   /\ all_overrides'[n] = Given(last')[n]
                   /\ \A sc \in HoldingAnother(scopes, n, Given(last')[n]) :
                         GetValue(scopes'[sc], n) = GetValue(scopes[sc], n)
                   /\ n \in DeclaredAnywhere(declared_arguments_per_toolchain)
                      => n \notin DOMAIN UnusedOverrides(
                                declared_arguments_per_toolchain',
                                DOMAIN declared_arguments_per_toolchain',
                                all_overrides')
       /\ (last'.op = "VerifyAllOverridesUsed" /\ ~last'.ret) =>
             last'.name
                \notin DeclaredAnywhere(declared_arguments_per_toolchain)
      ]_vars

\* C31 witness: "a" was declared and written into a scope, then overridden
\* with another value: the scope still holds the earlier value, the
\* override is registered, and the audit passes.
C31_Witness ==
    /\ last.op = "AddArgOverride"
    /\ last.name = "a"
    /\ HoldingAnother(scopes, "a", last.value) # {}
    /\ overrides["a"] = last.value
    /\ all_overrides["a"] = last.value
    /\ "a" \in DeclaredAnywhere(declared_arguments_per_toolchain)
    /\ AuditPasses

\* The toolchain overrides stored for a Settings whose names no scope owned
\* by that Settings has declared.
UndeclaredToolchainOverrides(s) ==
    (DOMAIN OverridesOf(toolchain_overrides, s))
       \ DeclaredNames(declared_arguments_per_toolchain, s)

\* C32: a name of the toolchain overrides stored for Settings T that is not
\* declared for T is held by no scope owned by T; and a call of
\* VerifyAllOverridesUsed counts every stored toolchain override whose name
\* is declared for at least one Settings, T or another, as used: it is not
\* among the unused overrides, it is never the name reported, and when all
\* the other overrides are declared too the audit passes.
C32_AuditAcrossToolchains ==
    /\ \A s \in DOMAIN toolchain_overrides :
          \A n \in UndeclaredToolchainOverrides(s) :
             \A sc \in ScopeIds :
                ScopeSettings(sc) = s => ~HasValue(scopes[sc], n)
    /\ last.op = "VerifyAllOverridesUsed" =>
          /\ \A s \in DOMAIN toolchain_overrides :
                \A n \in DOMAIN toolchain_overrides[s] :
                   n \in DeclaredAnywhere(declared_arguments_per_toolchain)
                   => /\ n \notin DOMAIN UnusedOverrides(
                                declared_arguments_per_toolchain,
                                DOMAIN declared_arguments_per_toolchain,
                                all_overrides)
                      /\ ~last.ret => last.name # n
          /\ (DOMAIN all_overrides
                 \subseteq DeclaredAnywhere(declared_arguments_per_toolchain))
             => last.ret

\* C32 witness: the audit has passed with a toolchain override of "a"
\* stored for one Settings, "a" declared under another Settings only, no
\* global override of "a", and no scope of the override's Settings holding
\* "a".
C32_Witness ==
    /\ last.op = "VerifyAllOverridesUsed"
    /\ last.ret
    /\ "a" \notin DOMAIN overrides
    /\ \E s \in DOMAIN toolchain_overrides :
          /\ "a" \in UndeclaredToolchainOverrides(s)
          /\ Declarers("a") # {}
          /\ \A sc \in ScopeIds :
                HasValue(scopes[sc], "a")
                => /\ ScopeSettings(sc) # s
                   /\ GetValue(scopes[sc], "a") # toolchain_overrides[s]["a"]
          /\ \E sc \in ScopeIds : HasValue(scopes[sc], "a")

\* C33: a DeclareArgs call on a scope owned by Settings s, whether it
\* returns true or false, leaves overrides and all_overrides as they were,
\* leaves the override entries stored for every toolchain (s included) as
\* they were, leaves declared_per_toolchain[s'] as it was (present or absent,
\* and its entries) for every s' other than s, and leaves every scope other
\* than scope_to_set as it was.
C33_DeclareArgsFrame ==
    [][last'.op = "DeclareArgs" =>
         LET s == ScopeSettings(last'.scope)
         IN  /\ overrides' = overrides
             /\ all_overrides' = all_overrides
             /\ \A t \in SettingsIds :
                   OverridesOf(toolchain_overrides', t)
                      = OverridesOf(toolchain_overrides, t)
             /\ \A t \in SettingsIds \ {s} :
                   /\ t \in DOMAIN declared_arguments_per_toolchain'
                         <=> t \in DOMAIN declared_arguments_per_toolchain
                   /\ DeclaredOf(declared_arguments_per_toolchain', t)
                         = DeclaredOf(declared_arguments_per_toolchain, t)
                   /\ t \in DOMAIN toolchain_overrides'
                         <=> t \in DOMAIN toolchain_overrides
             /\ \A sc \in ScopeIds \ {last'.scope} : scopes'[sc] = scopes[sc]
      ]_vars

\* C33 witness: a DeclareArgs has been refused while overrides are
\* registered, globally and for its toolchain, the name it was refused on is
\* overridden, and another scope holds values.
C33_Witness ==
    /\ last.op = "DeclareArgs"
    /\ ~last.ret
    /\ DOMAIN overrides # {}
    /\ DOMAIN LastToolchainOverrides # {}
    /\ (DOMAIN last.args) \cap (DOMAIN all_overrides) # {}
    /\ \E sc \in ScopeIds \ {last.scope} : DOMAIN scopes[sc].values # {}

\* The operations that only read the Args instance.
PureOps ==
    {"VerifyAllOverridesUsed", "GetArgOverride", "GetArgFromAllArguments",
     "GetAllArguments"}

\* The call just made repeats the one before it: the same read operation
\* with the same argument, nothing in between.
Repeats(before, after) ==
    /\ after.op \in PureOps
    /\ before.op = after.op
    /\ after.op \in {"GetArgOverride", "GetArgFromAllArguments"}
          => before.name = after.name

\* C34: VerifyAllOverridesUsed, GetArgOverride, GetArgFromAllArguments and
\* GetAllArguments leave overrides, all_overrides, declared_per_toolchain and
\* toolchain_overrides (keys and entries) and every scope as they were; and
\* a call that repeats the read just made returns what that one returned:
\* the same return value and error title; the same call record for
\* GetArgOverride, for the two sorted views when the sort of the toolchains
\* has one outcome, and for the audit when at most one override is unused;
\* and otherwise a value, a set of names with the same override fields, or
\* an unused override taken from the same unchanged maps.
C34_ReadsArePure ==
    [][last'.op \in PureOps =>
         /\ overrides' = overrides
         /\ all_overrides' = all_overrides
         /\ declared_arguments_per_toolchain' = declared_arguments_per_toolchain
         /\ toolchain_overrides' = toolchain_overrides
         /\ scopes' = scopes
         /\ Repeats(last, last') =>
               /\ last'.ret = last.ret
               /\ last'.err.title = last.err.title
               /\ last.op = "GetArgOverride" => last' = last
               /\ last.op = "GetArgFromAllArguments" =>
                     /\ last.name \in DOMAIN all_overrides => last' = last
                     /\ Cardinality(GetSortedToolchainsLocked(
                            declared_arguments_per_toolchain)) = 1
                        => last' = last
                     /\ (last.ret /\ last.name \notin DOMAIN all_overrides) =>
                           \E t \in FirstDeclarers(last.name) :
                              last'.value
                                 = declared_arguments_per_toolchain[t][last.name]
               /\ last.op = "GetAllArguments" =>
                     /\ Cardinality(GetSortedToolchainsLocked(
                            declared_arguments_per_toolchain)) = 1
                        => last' = last
                     /\ DOMAIN last'.result = DOMAIN last.result
                     /\ \A n \in DOMAIN last.result :
                           /\ last'.result[n].has_override
                                 = last.result[n].has_override
                           /\ last'.result[n].override_value
                                 = last.result[n].override_value
               /\ last.op = "VerifyAllOverridesUsed" =>
                     /\ Cardinality(UnusedNames) <= 1 => last' = last
                     /\ ~last.ret => last'.name \in UnusedNames
      ]_vars

\* C34 witness: the audit has failed on an unused override while another
\* override of all_overrides is declared, which the audit struck from its
\* copy only: all_overrides still holds both.
C34_Witness ==
    /\ last.op = "VerifyAllOverridesUsed"
    /\ ~last.ret
    /\ last.name \in DOMAIN all_overrides
    /\ \E n \in DOMAIN all_overrides :
          /\ n \in DeclaredAnywhere(declared_arguments_per_toolchain)
          /\ n # last.name
    /\ DOMAIN toolchain_overrides # {}

\* The names stored as toolchain overrides for some Settings.
StoredToolchainOverrideNames(tc_overrides) ==
    UNION {DOMAIN tc_overrides[s] : s \in DOMAIN tc_overrides}

\* C35: after every call each name stored in toolchain_overrides[s], for
\* every Settings s, is a name of all_overrides, and all_overrides has lost
\* no name; a SetupRootScope leaves exactly its toolchain_overrides argument
\* stored for the scope's Settings, whatever was stored there before, and
\* all_overrides with the names it had plus the argument's, each of those
\* with the argument's value; and a successful DeclareArgs writes for a
\* name that the stored map does not hold the global override or the
\* declared default, also when all_overrides still has the name from a map
\* that was replaced.
C35_ToolchainOverrideStorage ==
    [][/\ \A s \in DOMAIN toolchain_overrides' :
             \A n \in DOMAIN toolchain_overrides'[s] :
                n \in DOMAIN all_overrides'
       /\ DOMAIN all_overrides \subseteq DOMAIN all_overrides'
       /\ last'.op = "SetupRootScope" =>
             LET s == ScopeSettings(last'.scope)
             IN  /\ s \in DOMAIN toolchain_overrides'
                 /\ toolchain_overrides'[s] = last'.args
                 /\ DOMAIN all_overrides'
                       = (DOMAIN all_overrides) \cup (DOMAIN last'.args)
                 /\ \A n \in DOMAIN last'.args :
                       all_overrides'[n] = last'.args[n]
                 /\ \A n \in (DOMAIN all_overrides) \ (DOMAIN last'.args) :
                       all_overrides'[n] = all_overrides[n]
       /\ (last'.op = "DeclareArgs" /\ last'.ret) =>
             \A n \in (DOMAIN last'.args)
                        \ DOMAIN OverridesOf(toolchain_overrides,
                                             ScopeSettings(last'.scope)) :
                GetValue(scopes'[last'.scope], n)
                   = IF n \in DOMAIN overrides THEN overrides[n]
                     ELSE last'.args[n]
      ]_vars

\* C35 witness: "a" is in all_overrides from a toolchain_overrides map that
\* a second SetupRootScope for the same Settings replaced; no map stored now
\* holds it and there is no global override of it; a DeclareArgs on a scope
\* of that Settings has written the declared default.
C35_Witness ==
    /\ last.op = "DeclareArgs"
    /\ last.ret
    /\ "a" \in DOMAIN last.args
    /\ "a" \in DOMAIN all_overrides
    /\ "a" \notin DOMAIN overrides
    /\ "a" \notin StoredToolchainOverrideNames(toolchain_overrides)
    /\ kHostOs \in DeclaredNames(declared_arguments_per_toolchain, LastSettings)
    /\ GetValue(scopes[last.scope], "a") = last.args["a"]
    /\ GetValue(scopes[last.scope], "a") # all_overrides["a"]

\* The names of a DeclareArgs call that are recorded for the Settings with
\* the origin they are passed with.
SameOrigin(declared_arguments, args) ==
    {n \in DOMAIN args :
        /\ n \in DOMAIN declared_arguments
        /\ declared_arguments[n].origin = args[n].origin}

\* What DeclareArgs leaves in the scope for a name it has processed.
WrittenEntry(name, value, tc_overrides, ovr) ==
    [has |-> TRUE, value |-> EffectiveValue(name, value, tc_overrides, ovr),
     used |-> TRUE]

\* C36 as stated: whenever DeclareArgs is called with a name that is
\* recorded for the scope's Settings with the same origin, the call returns
\* true, the record keeps the value of the first declaration, and the scope
\* holds the effective value for the name, marked used.
C36_SameOriginRedeclaration ==
    [][last'.op = "DeclareArgs" =>
         LET s == ScopeSettings(last'.scope)
             old == DeclaredOf(declared_arguments_per_toolchain, s)
             new == DeclaredOf(declared_arguments_per_toolchain', s)
         IN \A n \in SameOrigin(old, last'.args) :
               /\ last'.ret
               /\ new[n] = old[n]
               /\ ScopeEntry(scopes'[last'.scope], n)
                     = WrittenEntry(n, last'.args[n],
                                    OverridesOf(toolchain_overrides, s),
                                    overrides)
      ]_vars

\* C36: a name passed to DeclareArgs with the origin it is recorded with
\* never makes the call fail: the call returns false exactly when another
\* of its names is recorded with a different origin. The record of the
\* same-origin name keeps the value of the first declaration whatever the
\* call returns. When the call returns true the scope holds the effective
\* value for the name (toolchain override, else global override, else the
\* value passed in this call), marked used; when it returns false the scope
\* holds that, or what it held before if the loop stopped before the name.
C36_SameOriginAccepted ==
    [][last'.op = "DeclareArgs" =>
         LET s == ScopeSettings(last'.scope)
             old == DeclaredOf(declared_arguments_per_toolchain, s)
             new == DeclaredOf(declared_arguments_per_toolchain', s)
             same == SameOrigin(old, last'.args)
             written(n) == WrittenEntry(n, last'.args[n],
                                        OverridesOf(toolchain_overrides, s),
                                        overrides)
         IN  /\ last'.ret <=>
                   \A n \in (DOMAIN last'.args) \cap (DOMAIN old) : n \in same
             /\ \A n \in same :
                   /\ n \in DOMAIN new
                   /\ new[n] = old[n]
                   /\ last'.ret =>
                         ScopeEntry(scopes'[last'.scope], n) = written(n)
                   /\ ~last'.ret =>
                         \/ ScopeEntry(scopes'[last'.scope], n) = written(n)
                         \/ ScopeEntry(scopes'[last'.scope], n)
                               = ScopeEntry(scopes[last'.scope], n)
      ]_vars

\* C36 witness: "a" has been declared again at the same origin with another
\* default: the call succeeded, the record keeps the first default, and the
\* scope, with no override of "a", holds the value passed in this call,
\* marked used.
C36_Witness ==
    /\ last.op = "DeclareArgs"
    /\ last.ret
    /\ "a" \in DOMAIN last.args
    /\ "a" \in SameOrigin(declared_arguments_per_toolchain[LastSettings],
                          last.args)
    /\ declared_arguments_per_toolchain[LastSettings]["a"] # last.args["a"]
    /\ "a" \notin DOMAIN overrides
    /\ "a" \notin DOMAIN LastToolchainOverrides
    /\ ScopeEntry(scopes[last.scope], "a")
          = [has |-> TRUE, value |-> last.args["a"], used |-> TRUE]

====
